---- MODULE Spec2Model ----
(***************************************************************************)
(* Model of the Commerce-Video frame-selection / detection / resolution   *)
(* pipeline (src/video_processor.py and the capabilities it calls).        *)
(*                                                                         *)
(* Floating point quantities are modelled by exact integers:               *)
(*   - a quality score q in [0,1] is the integer q * ScoreOne;             *)
(*   - a confidence c in [0,1] is the integer 10 * c;                      *)
(*   - a time in seconds is counted in ticks of 1/TicksPerSecond s.        *)
(***************************************************************************)
EXTENDS Integers, Sequences, FiniteSets, TLC

VARIABLES
    selIn,      \* inputs of _select_best_frame_in_range: the frame source, center, fps, config
    sel,        \* the locals of one run of _select_best_frame_in_range
    resIn,      \* inputs of _find_similar_products: the detections and what crop/search answer
    res,        \* the locals of one run of _find_similar_products
    alive,      \* the server process is running
    videos,     \* VideoProcessorManager.videos: the in-memory registry, id -> VideoInfo
    tasks,      \* the background task of each id: position and locals of process_video
    disk,       \* data/uploads/<id>/: the video file, results/ and detection_results.json
    reply,      \* the response of get_results when the last step was a call of it
    crashes,    \* how many times the process has died
    config,     \* FRAME_QUALITY_CONFIG.enable_quality_check, PERSON_DETECTION_CONFIG.enable_person_detection
    caps,       \* the lazily created capabilities the manager holds
    assessIn,   \* input of assess_frame_quality: the metrics of a frame, the config
    assessOut,  \* what assess_frame_quality returned, <<>> before it has
    instances,  \* per capability: how many were constructed, and the one the manager's field holds
    calls,      \* per job thread: its position in the getters it calls and what they returned
    detIn,      \* input of detect_persons or _detect_objects_in_frame: what the models answer
    detOut      \* what the function returned, <<>> before it has

selVars == <<selIn, sel>>
resVars == <<resIn, res>>
jobVars == <<alive, videos, tasks, disk, reply, crashes, config, caps>>
assessVars == <<assessIn, assessOut>>
lazyVars == <<instances, calls>>
detVars == <<detIn, detOut>>
vars == <<selIn, sel, resIn, res, alive, videos, tasks, disk, reply, crashes, config, caps,
          assessIn, assessOut, instances, calls, detIn, detOut>>

Abs(x) == IF x < 0 THEN -x ELSE x
Min2(a, b) == IF a <= b THEN a ELSE b
Max2(a, b) == IF a >= b THEN a ELSE b

(***************************************************************************)
(* Bounds of the model                                                     *)
(***************************************************************************)
NumFrames == 3          \* frames 0 .. NumFrames-1 exist in the modelled frame source
FpsDen == 2             \* fps is a multiple of 1/FpsDen
MaxFpsN == 4            \* fps ranges over 1/FpsDen .. MaxFpsN/FpsDen
MaxDetections == 2      \* detections handed to one run of _find_similar_products
TicksPerSecond == 2     \* resolution of the modelled times
MaxStored == 2          \* timestamps of a results file drawn as input of get_results
MaxQuerySeconds == 18   \* query times range over -1 s .. MaxQuerySeconds
MaxTotalFrames == 6     \* CAP_PROP_FRAME_COUNT of an uploaded video ranges over 0 .. MaxTotalFrames
MaxCrashes == 1         \* how often the server process dies and is started again
MaxSharpness == 1200    \* the Laplacian variance of a drawn frame ranges up to MaxSharpness
MaxContrast == 128      \* the standard deviation of a drawn frame ranges up to MaxContrast
MaxIntervals == 2       \* an uploaded video spans at most MaxIntervals sampling intervals

(***************************************************************************)
(* FrameQualityConfig (src/config.py)                                      *)
(***************************************************************************)
BlurThreshold == 100
MinBrightness == 40
MaxBrightness == 220
MaxUsefulSharpness == 1000
MaxUsefulContrast == 80
FallbackSearchRange == 1

(***************************************************************************)
(* FrameQualityAssessor (src/frame_quality_assessor.py)                    *)
(***************************************************************************)
\* The integer that stands for the score 1.0: the common denominator of the
\* three normalised terms times 10 (the weights are 0.5, 0.3, 0.2).
ScoreOne == 10 * MaxUsefulSharpness * (MaxBrightness - MinBrightness) * MaxUsefulContrast

\* _calculate_normalized_score, times ScoreOne.
\*   sharpness_norm  = min(sharpness / 1000, 1)
\*   brightness_norm = max(0, 1 - |brightness - (min+max)/2| / ((max-min)/2))
\*   contrast_norm   = min(contrast / 80, 1)
CalculateNormalizedScore_unclamped(m) ==
    LET range == MaxBrightness - MinBrightness
        brightTerm == Max2(0, range - Abs(2 * m.brightness - (MinBrightness + MaxBrightness)))
    IN  5 * m.sharpness * (range * MaxUsefulContrast)
        + 3 * brightTerm * (MaxUsefulSharpness * MaxUsefulContrast)
        + 2 * m.contrast * (MaxUsefulSharpness * range)
CalculateNormalizedScore(m) ==
    LET range == MaxBrightness - MinBrightness
        sharpTerm == Min2(m.sharpness, MaxUsefulSharpness)
        brightTerm == Max2(0, range - Abs(2 * m.brightness - (MinBrightness + MaxBrightness)))
        contrastTerm == Min2(m.contrast, MaxUsefulContrast)
    IN  5 * sharpTerm * (range * MaxUsefulContrast)
        + 3 * brightTerm * (MaxUsefulSharpness * MaxUsefulContrast)
        + 2 * contrastTerm * (MaxUsefulSharpness * range)

\* is_good_quality = is_sharp and is_good_brightness
IsGoodQuality(m) ==
    /\ m.sharpness >= BlurThreshold
    /\ MinBrightness <= m.brightness
    /\ m.brightness <= MaxBrightness

\* assess_frame_quality: (is_good_quality, quality_score)
AssessFrameQuality(enabled, m) ==
    IF ~enabled
    THEN [is_good |-> TRUE, score |-> ScoreOne]
    ELSE [is_good |-> IsGoodQuality(m), score |-> CalculateNormalizedScore(m)]

\* One call of assess_frame_quality
Assess ==
    /\ assessOut = <<>>
    /\ assessOut' = <<AssessFrameQuality(assessIn.enable_quality_check, assessIn.metrics)>>
    /\ UNCHANGED <<assessIn, selVars, resVars, jobVars, lazyVars, detVars>>

(***************************************************************************)
(* The frame source (cv2.VideoCapture): each index holds a frame that can  *)
(* be read, with the metrics of its pixels, or cannot be read.             *)
(***************************************************************************)
Metrics(s, b, c) == [ok |-> TRUE, sharpness |-> s, brightness |-> b, contrast |-> c]
Unreadable == [ok |-> FALSE, sharpness |-> 0, brightness |-> 0, contrast |-> 0]

FrameKinds ==
    { Unreadable,
      Metrics(1000, 130, 80),     \* sharp, mid brightness: passes, score 1.0
      Metrics(100, 40, 0),        \* at both thresholds: passes, score 0.05
      Metrics(0, 130, 0),         \* blurred, mid brightness: fails, score 0.3
      Metrics(1000, 39, 80),      \* sharp but too dark: fails, score 0.7
      Metrics(0, 0, 0) }          \* black: fails, score 0.0

FrameIdx == 0 .. (NumFrames - 1)

\* cap.set(CAP_PROP_POS_FRAMES, n); cap.read(): an index outside the source is not read
ReadFrame(source, n) == IF n \in DOMAIN source THEN source[n] ELSE Unreadable

(***************************************************************************)
(* VideoProcessorManager._find_similar_products                            *)
(*                                                                         *)
(* A detection carries, besides label / confidence / category, what the    *)
(* environment answers for it: whether its crop can be made and saved, and *)
(* what each similarity index returns for its crop ("raise", "none" for an *)
(* empty list, or the path of the top-1 match).                            *)
(***************************************************************************)
Categories == {"clothing", "jewelry", "unknown"}
Confidences == {4, 9}                       \* 0.4 and 0.9, in tenths
LabelOf(category) ==
    IF category = "clothing" THEN "top" ELSE IF category = "jewelry" THEN "ring" ELSE "thing"

Answers ==
    { [crop_ok |-> FALSE, clothing |-> "none",  jewelry |-> "none"],
      [crop_ok |-> TRUE,  clothing |-> "raise", jewelry |-> "j1"],
      [crop_ok |-> TRUE,  clothing |-> "c1",    jewelry |-> "raise"],
      [crop_ok |-> TRUE,  clothing |-> "none",  jewelry |-> "j2"],
      [crop_ok |-> TRUE,  clothing |-> "c2",    jewelry |-> "none"],
      [crop_ok |-> TRUE,  clothing |-> "c1",    jewelry |-> "j1"] }

DetectionInputs ==
    { [label |-> LabelOf(c), confidence |-> k, category |-> c, env |-> a] :
        c \in Categories, k \in Confidences, a \in Answers }

\* clothing_search.search(crop_path, top_k=1) / jewelry_search.search(crop_path, top_k=1)
ClothingSearch(d) == d.env.clothing
JewelrySearch(d) == d.env.jewelry

\* Route to the similarity search of the detection's category:
\* the index queried ("" when the category is not known and the detection is skipped)
RouteIndex_swapped(category) ==
    IF category = "clothing" THEN "jewelry"
    ELSE IF category = "jewelry" THEN "clothing"
    ELSE ""
RouteIndex(category) ==
    IF category = "clothing" THEN "clothing"
    ELSE IF category = "jewelry" THEN "jewelry"
    ELSE ""

SearchIn(index, d) == IF index = "clothing" THEN ClothingSearch(d) ELSE JewelrySearch(d)

\* detection['label'].title(): the label with its first letter in upper case
Title(label) ==
    IF label = "top" THEN "Top"
    ELSE IF label = "ring" THEN "Ring"
    ELSE IF label = "thing" THEN "Thing"
    ELSE label

\* The product dict built for detection number idx matched to image_path;
\* direct_url holds a fresh uuid4, distinct for every product built: idx stands for it.
MakeProduct(d, idx, image_path) ==
    [ object_type |-> d.label, category |-> d.category, image_url |-> image_path,
      title |-> Title(d.label), stock |-> "In Stock", direct_url |-> idx,
      confidence |-> d.confidence ]

\* unique_products is a dict in insertion order: a sequence of products with
\* distinct image_url; assigning to an existing key keeps the key's position.
DictHas(dict, key) == \E k \in 1 .. Len(dict) : dict[k].image_url = key
DictPos(dict, key) == CHOOSE k \in 1 .. Len(dict) : dict[k].image_url = key
DictPut(dict, key, value) ==
    IF DictHas(dict, key)
    THEN [dict EXCEPT ![DictPos(dict, key)] = value]
    ELSE Append(dict, value)

\* if detection["confidence"] > unique_products[image_path]["confidence"]
Replaces_orEqual(new, old) == new >= old
Replaces(new, old) == new > old

ResolveEntry ==
    [ pc |-> "loop", idx |-> 1, unique_products |-> <<>>, queries |-> <<>>,
      dropped |-> <<>>, result |-> <<>> ]

\* except Exception as e: logger.error(...); continue
\* (st is the state the iteration had reached when the exception was raised)
OnDetectionError_reset(st) ==
    [st EXCEPT !.idx = st.idx + 1, !.dropped = Append(st.dropped, st.idx),
               !.unique_products = <<>>]
OnDetectionError(st) ==
    [st EXCEPT !.idx = st.idx + 1, !.dropped = Append(st.dropped, st.idx)]

\* One iteration of "for idx, detection in enumerate(detections)".
ResolveIteration(d, st) ==
    LET next == [st EXCEPT !.idx = st.idx + 1]
        index == RouteIndex(d.category)
        queried == [st EXCEPT !.queries = Append(st.queries, [index |-> index, idx |-> st.idx])]
        asked == [queried EXCEPT !.idx = st.idx + 1]
        answer == SearchIn(index, d)
    IN  IF ~d.env.crop_ok
        THEN OnDetectionError(st)                   \* crop / save raises
        ELSE IF index = ""
        THEN next                                   \* unknown category: continue
        ELSE IF answer = "raise"
        THEN OnDetectionError(queried)              \* search raises
        ELSE IF answer = "none"
        THEN asked                                  \* similar_images is empty
        ELSE IF DictHas(st.unique_products, answer)
        THEN IF Replaces(d.confidence,
                         st.unique_products[DictPos(st.unique_products, answer)].confidence)
             THEN [asked EXCEPT !.unique_products =
                        DictPut(st.unique_products, answer, MakeProduct(d, st.idx, answer))]
             ELSE asked
        ELSE [asked EXCEPT !.unique_products =
                    DictPut(st.unique_products, answer, MakeProduct(d, st.idx, answer))]

\* products.sort(key=lambda x: x["confidence"], reverse=True): a stable sort,
\* elements of equal confidence keep their order.
RECURSIVE SortByConfidence(_)
InsertByConfidence_unstable(sorted, p) ==
    LET before == { k \in 1 .. Len(sorted) : sorted[k].confidence > p.confidence }
        n == Cardinality(before)
    IN  SubSeq(sorted, 1, n) \o <<p>> \o SubSeq(sorted, n + 1, Len(sorted))
InsertByConfidence(sorted, p) ==
    LET before == { k \in 1 .. Len(sorted) : sorted[k].confidence >= p.confidence }
        n == Cardinality(before)
    IN  SubSeq(sorted, 1, n) \o <<p>> \o SubSeq(sorted, n + 1, Len(sorted))
SortByConfidence(products) ==
    IF products = <<>> THEN <<>>
    ELSE InsertByConfidence(SortByConfidence(SubSeq(products, 1, Len(products) - 1)),
                            products[Len(products)])

ResolveStep ==
    /\ res.pc = "loop"
    /\ res.idx <= Len(resIn)
    /\ res' = ResolveIteration(resIn[res.idx], res)
    /\ UNCHANGED <<resIn, selVars, jobVars, assessVars, lazyVars, detVars>>

ResolveReturn ==
    /\ res.pc = "loop"
    /\ res.idx > Len(resIn)
    /\ res' = [res EXCEPT !.pc = "done", !.result = SortByConfidence(res.unique_products)]
    /\ UNCHANGED <<resIn, selVars, jobVars, assessVars, lazyVars, detVars>>

(***************************************************************************)
(* VideoProcessorManager._select_best_frame_in_range                       *)
(***************************************************************************)
\* search_range_frames = int(fps * search_range_seconds)
SearchRangeFrames(fpsN) == (fpsN * FallbackSearchRange) \div FpsDen

\* offsets = [0, 1, -1, 2, -2, ..., r, -r]
Offsets_minusFirst(r) ==
    [k \in 1 .. (2 * r + 1) |->
        IF k = 1 THEN 0 ELSE IF k % 2 = 0 THEN -(k \div 2) ELSE k \div 2]
Offsets(r) ==
    [k \in 1 .. (2 * r + 1) |->
        IF k = 1 THEN 0 ELSE IF k % 2 = 0 THEN k \div 2 ELSE -(k \div 2)]

StartFrame(center, r) == Max2(0, center - r)
EndFrame(center, r) == center + r

\* best_quality = -1.0
InitBestQuality_high == ScoreOne
InitBestQuality == -ScoreOne

\* if quality_score > best_quality
Better_orEqual(score, best) == score >= best
Better(score, best) == score > best

\* if is_good: break
StopEarly_never(is_good) == FALSE
StopEarly(is_good) == is_good

\* The locals at the top of the probe loop.
SelectEntry(center) ==
    [ pc |-> "loop", i |-> 1,
      best_frame |-> <<>>, best_frame_num |-> center, best_quality |-> InitBestQuality,
      reads |-> <<>>, result |-> <<>> ]

\* One iteration of "for offset in offsets", from the locals st.
SelectIteration(in, st) ==
    LET r == SearchRangeFrames(in.fpsN)
        frame_num == in.center + Offsets(r)[st.i]
        frame == ReadFrame(in.source, frame_num)
        q == AssessFrameQuality(in.enable_quality_check, frame)
        next == [st EXCEPT !.i = st.i + 1]
        read == [next EXCEPT !.reads = Append(st.reads, frame_num)]
    IN  IF frame_num < StartFrame(in.center, r) \/ frame_num > EndFrame(in.center, r)
        THEN next                                   \* continue, nothing read
        ELSE IF ~frame.ok
        THEN read                                   \* not ret: continue
        ELSE IF Better(q.score, st.best_quality)
        THEN [read EXCEPT !.best_quality = q.score,
                          !.best_frame = <<frame>>,
                          !.best_frame_num = frame_num,
                          !.pc = IF StopEarly(q.is_good) THEN "return" ELSE "loop"]
        ELSE read

\* return (best_frame, best_frame_num, best_quality) if best_frame is not None else None
SelectResult(st) ==
    IF st.best_frame # <<>>
    THEN <<[frame |-> st.best_frame[1], frame_num |-> st.best_frame_num,
            quality |-> st.best_quality]>>
    ELSE <<>>

SelectProbe ==
    /\ sel.pc = "loop"
    /\ sel.i <= Len(Offsets(SearchRangeFrames(selIn.fpsN)))
    /\ sel' = SelectIteration(selIn, sel)
    /\ UNCHANGED <<selIn, resVars, jobVars, assessVars, lazyVars, detVars>>

SelectReturn ==
    /\ \/ sel.pc = "return"
       \/ sel.pc = "loop" /\ sel.i > Len(Offsets(SearchRangeFrames(selIn.fpsN)))
    /\ sel' = [sel EXCEPT !.pc = "done", !.result = SelectResult(sel)]
    /\ UNCHANGED <<selIn, resVars, jobVars, assessVars, lazyVars, detVars>>

(***************************************************************************)
(* The capabilities called by the pipeline, and the pipeline's functions   *)
(***************************************************************************)
\* _select_best_frame_in_range run to its return
RECURSIVE SelectRun(_, _)
SelectRun(in, st) ==
    IF st.pc = "loop" /\ st.i <= Len(Offsets(SearchRangeFrames(in.fpsN)))
    THEN SelectRun(in, SelectIteration(in, st))
    ELSE SelectResult(st)
SelectBest(source, center, fpsN, enabled) ==
    SelectRun([source |-> source, center |-> center, fpsN |-> fpsN,
               enable_quality_check |-> enabled],
              SelectEntry(center))

\* PERSON_DETECTION_CONFIG.min_person_area = 0.05, as a percentage
MinPersonAreaPercent == 5
PersonLabel == 1

\* The frames have one size (width, height).
ImageSize == <<100, 100>>
BoxArea(box) == (box[3] - box[1]) * (box[4] - box[2])

\* if area_ratio >= self.min_person_area, area_ratio = person_area / image_area
LargeEnough_strict(person_area, image_area) ==
    person_area * 100 > MinPersonAreaPercent * image_area
LargeEnough(person_area, image_area) ==
    person_area * 100 >= MinPersonAreaPercent * image_area

\* PersonDetector.detect_persons: (has_person, boxes, confidences).
\* answer is what the DETR model returns for the frame, or that it raises.
RECURSIVE KeepPersons(_)
KeepPersons(dets) ==
    IF dets = <<>> THEN <<>>
    ELSE LET d == Head(dets)
         IN  IF d.label = PersonLabel
                /\ LargeEnough(BoxArea(d.box), ImageSize[1] * ImageSize[2])
             THEN <<d>> \o KeepPersons(Tail(dets))
             ELSE KeepPersons(Tail(dets))
DetectPersons(enabled, answer) ==
    IF ~enabled THEN [has_person |-> TRUE, persons |-> <<>>]
    ELSE IF answer.raises THEN [has_person |-> TRUE, persons |-> <<>>]
    ELSE [has_person |-> KeepPersons(answer.dets) # <<>>, persons |-> KeepPersons(answer.dets)]

\* PersonDetector.is_person_present
IsPersonPresent_always(enabled, answer) == TRUE
IsPersonPresent(enabled, answer) == DetectPersons(enabled, answer).has_person

\* PersonDetector.get_primary_person_box: <<>> for None, else <<box>> of the
\* first detection of highest confidence
GetPrimaryPersonBox(enabled, answer) ==
    LET r == DetectPersons(enabled, answer)
    IN  IF ~r.has_person \/ r.persons = <<>> THEN <<>>
        ELSE LET k == CHOOSE i \in 1 .. Len(r.persons) :
                        /\ \A j \in 1 .. Len(r.persons) : r.persons[j].score <= r.persons[i].score
                        /\ \A j \in 1 .. (i - 1) : r.persons[j].score < r.persons[i].score
             IN  <<r.persons[k].box>>

\* MODEL_CONFIG.confidence_threshold and JEWELRY_CONFIG.confidence_threshold, in tenths
ClothingThreshold == 4
JewelryThreshold == 4
PaddingPercent == 5

\* The crop of _detect_objects_in_frame: (crop_x1, crop_y1, crop_x2, crop_y2)
CropBox(box) ==
    LET pad_x == ((box[3] - box[1]) * PaddingPercent) \div 100
        pad_y == ((box[4] - box[2]) * PaddingPercent) \div 100
    IN  << Max2(0, box[1] - pad_x), Max2(0, box[2] - pad_y),
           Min2(ImageSize[1], box[3] + pad_x), Min2(ImageSize[2], box[4] + pad_y) >>

Translate_none(box, offset_x, offset_y) == box
Translate(box, offset_x, offset_y) ==
    <<box[1] + offset_x, box[2] + offset_y, box[3] + offset_x, box[4] + offset_y>>

\* if confidence >= detector.confidence_threshold:
AtOrAbove_strict(confidence, threshold) == confidence > threshold
AtOrAbove(confidence, threshold) == confidence >= threshold

\* The detections kept from one detector's parallel arrays, tagged with a category.
RECURSIVE KeepDetections(_, _, _, _, _)
KeepDetections(dets, threshold, category, offset_x, offset_y) ==
    IF dets = <<>> THEN <<>>
    ELSE LET d == Head(dets)
             rest == KeepDetections(Tail(dets), threshold, category, offset_x, offset_y)
         IN  IF AtOrAbove(d.score, threshold)
             THEN <<[label |-> d.label, confidence |-> d.score,
                     box |-> Translate(d.box, offset_x, offset_y),
                     category |-> category]>> \o rest
             ELSE rest

\* ClothingDetector.detect_objects has no handler: a failure of the model raises.
ClothingDetectRaises(answer) == answer.raises
\* JewelryDetector.detect_objects catches every exception and returns empty lists.
JewelryDetectObjects(answer) == IF answer.raises THEN <<>> ELSE answer.dets

\* _detect_objects_in_frame: raised, or the detections of both detectors.
\* person_box is <<>> (None) or <<box>>.
DetectObjectsInFrame(clothing, jewelry, person_box) ==
    LET offset_x == IF person_box = <<>> THEN 0 ELSE CropBox(person_box[1])[1]
        offset_y == IF person_box = <<>> THEN 0 ELSE CropBox(person_box[1])[2]
    IN  IF ClothingDetectRaises(clothing)
        THEN [raised |-> TRUE, detections |-> <<>>]
        ELSE [raised |-> FALSE,
              detections |->
                KeepDetections(clothing.dets, ClothingThreshold, "clothing", offset_x, offset_y)
                \o KeepDetections(JewelryDetectObjects(jewelry), JewelryThreshold, "jewelry",
                                  offset_x, offset_y)]

\* _find_similar_products run to its return; envs[k] is what crop and search
\* answer for detection k.
RECURSIVE ResolveRun(_, _)
ResolveRun(dets, st) ==
    IF st.idx <= Len(dets)
    THEN ResolveRun(dets, ResolveIteration(dets[st.idx], st))
    ELSE SortByConfidence(st.unique_products)
FindSimilarProducts(detections, envs) ==
    ResolveRun([k \in 1 .. Len(detections) |->
                  [label |-> detections[k].label, confidence |-> detections[k].confidence,
                   category |-> detections[k].category, env |-> envs[k]]],
               ResolveEntry)

\* if products:
HasProducts_always(products) == TRUE
HasProducts(products) == products # <<>>

\* frames_data[timestamp] = products
FramesPut(frames_data, timestamp, products) ==
    IF \E k \in 1 .. Len(frames_data) : frames_data[k].timestamp = timestamp
    THEN [k \in 1 .. Len(frames_data) |->
            IF frames_data[k].timestamp = timestamp
            THEN [timestamp |-> timestamp, products |-> products]
            ELSE frames_data[k]]
    ELSE Append(frames_data, [timestamp |-> timestamp, products |-> products])

(***************************************************************************)
(* The registry, the uploads directory and get_results                     *)
(***************************************************************************)
JobIds == {"v1"}

\* VIDEO_CONFIG.interval_seconds
IntervalSeconds == 5
Interval == IntervalSeconds * TicksPerSecond        \* in ticks

\* detection_results.json: absent, or the entries written so far, in the
\* order of the dict, and whether the text on disk is the whole JSON document.
NoFile == [exists |-> FALSE, complete |-> FALSE, entries |-> <<>>]
\* A directory data/uploads/<name>: the video file saved in it, whether its
\* results directory exists, the results file, and the frame and crop images
\* under results/frames, each with the job that wrote it.
EmptyDir == [video |-> <<>>, results_dir |-> FALSE, results_file |-> NoFile, files |-> {}]

\* results_dir = os.path.join(video_dir, "results"), video_dir = f"data/uploads/{video_id}":
\* the name of the upload directory that holds it
ResultsDir_shared(id) == "v1"
ResultsDir(id) == id

VideoInfo(id, status) ==
    [ id |-> id, filename |-> "clip.mp4", status |-> status, file_path |-> id,
      results_dir |-> ResultsDir(id), error_message |-> "" ]

\* frame_path = frames_dir / f"frame_{timestamp:.1f}s.jpg"
FrameImage(timestamp) ==
    [kind |-> "frame", category |-> "", timestamp |-> timestamp, idx |-> 0]
\* crop_path = crops_dir / f"crop_{category}_{timestamp:.1f}s_{idx}.jpg"
CropImage(category, timestamp, idx) ==
    [kind |-> "crop", category |-> category, timestamp |-> timestamp, idx |-> idx]

\* The locals of process_video and of the functions it is in.
\* What the last iteration of the extraction loop did: whether a frame of its
\* search window could be read, the calls it made after the selection (in order), what the person detector did in each of its two calls, the person
\* box used, what the detectors returned and the detections fused from it.
NoLast ==
    [ kind |-> "none", interval_idx |-> 0, readable |-> FALSE, calls |-> <<>>,
      present_raised |-> FALSE, box_raised |-> FALSE, persons |-> <<>>,
      person_box |-> <<>>, clothing |-> <<>>, jewelry |-> <<>>, detections |-> <<>>,
      wrote |-> {} ]

TaskIdle ==
    [ pc |-> "none", interval_idx |-> 0, frames_data |-> <<>>, skipped_quality |-> 0,
      skipped_person |-> 0, processed_count |-> 0, written |-> 0, saved |-> FALSE,
      raised |-> "", last |-> NoLast, read |-> {} ]

\* The task after it has read these fields of its job record (video_info).
Reads(task, fields) == [task EXCEPT !.read = @ \cup fields]

NoReply == [kind |-> "none", id |-> "", time |-> 0, products |-> <<>>]

\* round(x) of Python 3 for x = n / d, d > 0: to the nearest integer, a tie to the even one
RoundHalfEven(n, d) ==
    LET q == n \div d
        r == n % d
    IN  IF 2 * r < d THEN q
        ELSE IF 2 * r > d THEN q + 1
        ELSE IF q % 2 = 0 THEN q ELSE q + 1

\* rounded_time = round(time / interval) * interval
RoundedTime(time) == RoundHalfEven(time, Interval) * Interval

\* min(timestamps, key=lambda t: abs(t - rounded_time)): the first of the nearest, in file order
ClosestEntry(entries, rounded) ==
    CHOOSE k \in 1 .. Len(entries) :
        /\ \A j \in 1 .. Len(entries) :
              Abs(entries[k].timestamp - rounded) <= Abs(entries[j].timestamp - rounded)
        /\ \A j \in 1 .. (k - 1) :
              Abs(entries[j].timestamp - rounded) > Abs(entries[k].timestamp - rounded)

\* if abs(closest_time - rounded_time) > interval * 2: return []
TooFar_atLeast(distance) == distance >= Interval * 2
TooFar(distance) == distance > Interval * 2

\* ProductResult(object_type=..., category=..., image_url=..., title=..., stock=..., direct_url=...)
ToProductResult(p) ==
    [ object_type |-> p.object_type, category |-> p.category, image_url |-> p.image_url,
      title |-> p.title, stock |-> p.stock, direct_url |-> p.direct_url ]

\* The lookup of get_results in a results file that json.load has parsed.
\* Keys are written as str(timestamp) and read back with float(): Python's
\* repr of a float round-trips, so all_results[str(closest_time)] is the entry found.
LookupResults(entries, time) ==
    IF entries = <<>> THEN <<>>
    ELSE LET rounded == RoundedTime(time)
             k == ClosestEntry(entries, rounded)
         IN  IF TooFar(Abs(entries[k].timestamp - rounded))
             THEN <<>>
             ELSE [i \in 1 .. Len(entries[k].products) |->
                      ToProductResult(entries[k].products[i])]

\* if video_info.status != "completed": return []
NotCompleted(status) == status # "completed"

\* VideoProcessorManager.get_results for a registered video
GetResultsOf(info, file, time) ==
    IF NotCompleted(info.status) THEN <<>>
    ELSE IF ~file.exists THEN <<>>
    ELSE IF ~file.complete THEN <<>>               \* json.load raises: except, return []
    ELSE LookupResults(file.entries, time)

QueryTimes == (-TicksPerSecond) .. (MaxQuerySeconds * TicksPerSecond)

\* GET /api/results/{video_id}?time=...
GetResults(id, time) ==
    /\ alive
    /\ reply' = IF id \in DOMAIN videos
                THEN [kind |-> "results", id |-> id, time |-> time,
                      products |-> GetResultsOf(videos[id],
                                                disk[videos[id].results_dir].results_file,
                                                time)]
                ELSE [kind |-> "not_found", id |-> id, time |-> time, products |-> <<>>]
    /\ UNCHANGED <<alive, videos, tasks, disk, crashes, config, caps, selVars, resVars, assessVars, lazyVars, detVars>>

(***************************************************************************)
(* process_video and the functions it calls, as steps of a background task *)
(***************************************************************************)
\* What cv2.VideoCapture reports for an uploaded file. Only fps values whose
\* timestamps frame_num / fps are whole ticks are drawn.
JobFps == { n \in 0 .. MaxFpsN : n = 0 \/ (FpsDen * TicksPerSecond) % n = 0 }
VideoFiles ==
    { v \in [opens : {TRUE}, fpsN : JobFps, total_frames : 0 .. MaxTotalFrames] :
        \/ (v.fpsN * IntervalSeconds) \div FpsDen = 0
        \/ v.total_frames <= MaxIntervals * ((v.fpsN * IntervalSeconds) \div FpsDen) }
    \cup { [opens |-> FALSE, fpsN |-> 0, total_frames |-> 0] }

\* frame_interval = int(fps * interval_seconds)
FrameInterval(fpsN) == (fpsN * IntervalSeconds) \div FpsDen
\* timestamp = frame_num / fps, in ticks
Timestamp(frame_num, fpsN) == (frame_num * FpsDen * TicksPerSecond) \div fpsN

\* What the frames, the person detector, the two object detectors and the
\* crop / search of a detection can be in a job.
JobFrameKinds == { Unreadable, Metrics(1000, 130, 80), Metrics(0, 130, 0) }
\* What the person detection model finds in a frame; whether a call of it
\* raises is drawn for every call.
PersonOutputs ==
    { <<>>,
      <<[score |-> 9, label |-> PersonLabel, box |-> <<10, 10, 60, 90>>]>> }
ClothingOutputs ==
    { [raises |-> TRUE,  dets |-> <<>>],
      [raises |-> FALSE, dets |-> <<>>],
      [raises |-> FALSE, dets |-> <<[score |-> 9, label |-> "top", box |-> <<5, 5, 20, 20>>]>>] }
JewelryOutputs ==
    { [raises |-> TRUE,  dets |-> <<>>],
      [raises |-> FALSE, dets |-> <<>>],
      [raises |-> FALSE, dets |-> <<[score |-> 4, label |-> "ring", box |-> <<8, 8, 12, 12>>]>>] }
JobAnswers ==
    { [crop_ok |-> FALSE, clothing |-> "none",  jewelry |-> "none"],
      [crop_ok |-> TRUE,  clothing |-> "c1",    jewelry |-> "j1"] }

\* Whether a call of the person detection model raises: it is called only
\* when person detection is enabled.
Raises(enabled) == IF enabled THEN BOOLEAN ELSE {FALSE}

\* Everything outside the program that an iteration of the loop consults.
JobEnv ==
    [ frames |-> JobFrameKinds, persons |-> PersonOutputs, raises |-> BOOLEAN,
      clothing |-> ClothingOutputs, jewelry |-> JewelryOutputs, answers |-> JobAnswers ]

\* The lazily created capabilities, in the order their getters are called.
DetectorCaps == <<"detector", "jewelry_detector", "person_detector", "quality_assessor">>
SearchCaps == <<"clothing_search", "jewelry_search">>
\* The getters of names are called in order; the first n constructions needed
\* succeed: the capabilities held afterwards.
LoadedAfter(names, n) ==
    caps \cup { names[k] : k \in { j \in 1 .. Len(names) :
                    Cardinality({ i \in 1 .. j : names[i] \notin caps }) <= n } }
Missing(names) == Cardinality({ i \in 1 .. Len(names) : names[i] \notin caps })

\* except Exception as e: video_info.status = "failed"; video_info.error_message = str(e)
FailedStatus_processing == "processing"
FailedStatus == "failed"
FailedIn(id, task, message) ==
    /\ videos' = [videos EXCEPT ![id].status = FailedStatus, ![id].error_message = message]
    /\ tasks' = [tasks EXCEPT ![id] = [task EXCEPT !.pc = "done", !.raised = message]]
Failed(id, message) == FailedIn(id, tasks[id], message)

\* POST /api/upload: the file is saved under a fresh uuid, the job registered
\* as processing and process_video scheduled as a background task.
UploadIn(id, files) ==
    /\ alive
    /\ id \notin DOMAIN videos
    /\ disk[id] = EmptyDir
    /\ \E file \in files : disk' = [disk EXCEPT ![id].video = <<file>>]
    /\ videos' = [j \in DOMAIN videos \cup {id} |->
                    IF j = id THEN VideoInfo(id, "processing") ELSE videos[j]]
    /\ tasks' = [tasks EXCEPT ![id] = [TaskIdle EXCEPT !.pc = "queued"]]
    /\ reply' = NoReply
    /\ UNCHANGED <<alive, crashes, config, caps, selVars, resVars, assessVars, lazyVars, detVars>>
Upload(id) == UploadIn(id, VideoFiles)

\* POST /api/upload with a content type that does not start with "video/":
\* inside the try, raise HTTPException(status_code=400, detail="File must be a
\* video"); HTTPException is an Exception, so the handler's own
\* "except Exception as e" catches it and raises
\* HTTPException(status_code=500, detail=f"Upload failed: {str(e)}").
NotVideoStatus == 400
UploadFailedStatus == 500
ContentTypes == {"video/mp4", "text/plain"}
IsVideo(content_type) == content_type = "video/mp4"
UploadNotVideo ==
    /\ alive
    /\ \E content_type \in ContentTypes :
          /\ ~IsVideo(content_type)
          /\ reply' = [ kind |-> "upload_error", id |-> "", time |-> 0, products |-> <<>>,
                        status_code |-> UploadFailedStatus,
                        detail |-> "Upload failed: 400: File must be a video" ]
    /\ UNCHANGED <<alive, videos, tasks, disk, crashes, config, caps, selVars, resVars,
                   assessVars, lazyVars, detVars>>

\* process_video(video_id) for an id that is not in the registry: get_video
\* raises ValueError, the handler finds no entry for the id and returns.
ProcessUnregistered(id) ==
    /\ alive
    /\ id \notin DOMAIN videos
    /\ tasks[id].pc = "none"
    /\ tasks' = [tasks EXCEPT ![id].raised = "Video not found"]
    /\ reply' = NoReply
    /\ UNCHANGED <<alive, videos, disk, crashes, config, caps, selVars, resVars, assessVars,
                   lazyVars, detVars>>

\* process_video up to the call of _extract_and_process_frames
StartProcessing(id) ==
    /\ alive
    /\ tasks[id].pc = "queued"
    /\ videos' = [videos EXCEPT ![id].status = "processing"]
    /\ disk' = [disk EXCEPT ![videos[id].results_dir].results_dir = TRUE]
    /\ tasks' = [tasks EXCEPT ![id] = Reads([@ EXCEPT !.pc = "open"], {"results_dir"})]
    /\ reply' = NoReply
    /\ UNCHANGED <<alive, crashes, config, caps, selVars, resVars, assessVars, lazyVars, detVars>>

\* range(0, total_frames, frame_interval) raises ValueError when the step is 0
RangeRaises_never(step) == FALSE
RangeRaises(step) == step = 0

\* _extract_and_process_frames up to its loop: open the source, read fps and
\* the frame count, create the detectors, evaluate range(0, total, frame_interval)
OpenVideo(id) ==
    /\ alive
    /\ tasks[id].pc = "open"
    /\ reply' = NoReply
    /\ LET v == disk[id].video[1]
       IN  \/ /\ ~v.opens
              /\ FailedIn(id, Reads(tasks[id], {"file_path"}), "Failed to open video")
              /\ UNCHANGED caps
           \/ /\ v.opens
              /\ \E n \in 0 .. (Missing(DetectorCaps) - 1) :
                    caps' = LoadedAfter(DetectorCaps, n)
              /\ FailedIn(id, Reads(tasks[id], {"file_path"}), "capability failed to load")
           \/ /\ v.opens
              /\ caps' = LoadedAfter(DetectorCaps, Len(DetectorCaps))
              /\ IF RangeRaises(FrameInterval(v.fpsN))
                 THEN FailedIn(id, Reads(tasks[id], {"file_path"}), "range() arg 3 must not be zero")
                 ELSE /\ tasks' = [tasks EXCEPT ![id] =
                                      Reads([@ EXCEPT !.pc = "loop", !.interval_idx = 0],
                                            {"file_path"})]
                      /\ UNCHANGED videos
    /\ UNCHANGED <<alive, disk, crashes, config, selVars, resVars, assessVars, lazyVars, detVars>>

\* The frames a video can hold in the search window around center.
WindowSourcesIn(v, center, kinds) ==
    [ { n \in 0 .. (v.total_frames - 1) :
          /\ n >= center - SearchRangeFrames(v.fpsN)
          /\ n <= center + SearchRangeFrames(v.fpsN) } -> kinds ]
WindowSources(v, center) == WindowSourcesIn(v, center, JobFrameKinds)

\* best_frame, actual_frame_num, quality_score = frame_result: of the frame
\* selected, the loop uses the pixels (what the detectors answer for them is
\* drawn) and the frame number.
FrameNumOf(frame_result) ==
    IF frame_result = <<>> THEN <<>> ELSE <<frame_result[1].frame_num>>

\* One iteration of "for interval_idx in range(0, total_frames, frame_interval)":
\* the ways it can end, over everything the frames, the detectors, the crops
\* and the searches can answer. An outcome is the task after the iteration,
\* the capabilities held, and the text of the exception that left the loop
\* ("" when none did).
IntervalOutcomesIn(id, env) ==
    LET v == disk[id].video[1]
        t == tasks[id]
        gate == config.enable_person_detection
        next0 == [t EXCEPT !.interval_idx = t.interval_idx + FrameInterval(v.fpsN),
                           !.last = [NoLast EXCEPT !.interval_idx = t.interval_idx]]
        Outcome(task, kind, held, message) ==
            [task |-> [task EXCEPT !.last.kind = kind], caps |-> held, raised |-> message]
        \* _find_similar_products and the store of its products
        Resolve(searched, detections, timestamp) ==
            { Outcome(searched, "raised", LoadedAfter(SearchCaps, n), "capability failed to load") :
                n \in 0 .. (Missing(SearchCaps) - 1) }
            \cup
            { LET products == FindSimilarProducts(detections, envs)
                  cropped == [searched EXCEPT !.last.wrote = @ \cup
                                { CropImage(detections[k].category, timestamp, k - 1) :
                                    k \in { j \in 1 .. Len(detections) : envs[j].crop_ok } }]
              IN  Outcome(IF HasProducts(products)
                          THEN [cropped EXCEPT
                                  !.frames_data = FramesPut(t.frames_data, timestamp, products),
                                  !.processed_count = t.processed_count + 1]
                          ELSE cropped,
                          "processed", LoadedAfter(SearchCaps, Len(SearchCaps)), "") :
                envs \in [1 .. Len(detections) -> env.answers] }
        \* get_primary_person_box and _detect_objects_in_frame
        Detect(seen, persons, frame_num, r2, clothing, jewelry) ==
            LET person_box == GetPrimaryPersonBox(gate, [raises |-> r2, dets |-> persons])
                fused == DetectObjectsInFrame(clothing, jewelry, person_box)
                boxed == [seen EXCEPT
                            !.last.calls = <<"is_person_present", "get_primary_person_box",
                                             "detect_objects_in_frame">>,
                            !.last.box_raised = gate /\ r2,
                            !.last.wrote = { FrameImage(Timestamp(frame_num, v.fpsN)) },
                            !.last.person_box = person_box,
                            !.last.clothing = clothing.dets,
                            !.last.jewelry = IF fused.raised THEN <<>>
                                             ELSE JewelryDetectObjects(jewelry),
                            !.last.detections = fused.detections]
            IN  IF fused.raised
                THEN { Outcome(boxed, "raised", caps, "clothing detector failed") }
                ELSE Resolve([boxed EXCEPT !.last.calls = Append(@, "find_similar_products")],
                             fused.detections, Timestamp(frame_num, v.fpsN))
        \* is_person_present and what follows it
        Gate(next, frame_num, persons, r1) ==
            LET seen == [next EXCEPT !.last.calls = <<"is_person_present">>,
                                     !.last.present_raised = gate /\ r1,
                                     !.last.persons = persons]
            IN  IF ~IsPersonPresent(gate, [raises |-> r1, dets |-> persons])
                THEN { Outcome([seen EXCEPT !.skipped_person = t.skipped_person + 1],
                               "skipped_person", caps, "") }
                ELSE UNION { Detect(seen, persons, frame_num, r2, clothing, jewelry) :
                               r2 \in Raises(gate) \cap env.raises, clothing \in env.clothing,
                               jewelry \in env.jewelry }
        \* _select_best_frame_in_range and what follows it
        Selected(frame_result, readable) ==
            LET next == [next0 EXCEPT !.last.readable = readable]
            IN  IF frame_result = <<>>
                THEN { Outcome([next EXCEPT !.skipped_quality = t.skipped_quality + 1],
                               "skipped_quality", caps, "") }
                ELSE UNION { Gate(next, frame_result[1], persons, r1) :
                               persons \in env.persons, r1 \in Raises(gate) \cap env.raises }
    IN  UNION { Selected(selected[1], selected[2]) :
                  selected \in { <<FrameNumOf(SelectBest(src, t.interval_idx, v.fpsN,
                                                         config.enable_quality_check)),
                                   \E n \in DOMAIN src : src[n].ok>> :
                                 src \in WindowSourcesIn(v, t.interval_idx, env.frames) } }
IntervalOutcomes(id) == IntervalOutcomesIn(id, JobEnv)

ProcessIntervalIn(id, env) ==
    /\ alive
    /\ tasks[id].pc = "loop"
    /\ tasks[id].interval_idx < disk[id].video[1].total_frames
    /\ reply' = NoReply
    /\ \E outcome \in IntervalOutcomesIn(id, env) :
          /\ caps' = outcome.caps
          /\ IF outcome.raised = ""
             THEN /\ tasks' = [tasks EXCEPT ![id] = outcome.task]
                  /\ UNCHANGED videos
             ELSE FailedIn(id, outcome.task, outcome.raised)
          /\ disk' = [disk EXCEPT ![videos[id].results_dir].files = @ \cup
                         { [file |-> f, by |-> id] : f \in outcome.task.last.wrote }]
    /\ UNCHANGED <<alive, crashes, config, selVars, resVars, assessVars, lazyVars, detVars>>
ProcessInterval(id) == ProcessIntervalIn(id, JobEnv)

\* self._generate_thumbnail(video_info.file_path, video_info.id)
ThumbnailReads_filename == {"file_path", "id", "filename"}
ThumbnailReads == {"file_path", "id"}

\* The loop is over: cap.release(), return frames_data; _generate_thumbnail
FinishExtraction(id) ==
    /\ alive
    /\ tasks[id].pc = "loop"
    /\ tasks[id].interval_idx >= disk[id].video[1].total_frames
    /\ tasks' = [tasks EXCEPT ![id] =
                    Reads([@ EXCEPT !.pc = "save", !.last = NoLast], ThumbnailReads)]
    /\ reply' = NoReply
    /\ UNCHANGED <<alive, videos, disk, crashes, config, caps, selVars, resVars, assessVars, lazyVars, detVars>>

\* _save_results: open(results_file, "w") creates the file or truncates it
SaveOpen(id) ==
    /\ alive
    /\ tasks[id].pc = "save"
    /\ disk' = [disk EXCEPT ![videos[id].results_dir].results_file =
                    [exists |-> TRUE, complete |-> FALSE, entries |-> <<>>]]
    /\ tasks' = [tasks EXCEPT ![id].pc = "dump", ![id].written = 0, ![id].saved = TRUE]
    /\ reply' = NoReply
    /\ UNCHANGED <<alive, videos, crashes, config, caps, selVars, resVars, assessVars, lazyVars, detVars>>

\* json.dump writes the document piece by piece: the next entry reaches the file
SaveWrite(id) ==
    /\ alive
    /\ tasks[id].pc = "dump"
    /\ tasks[id].written < Len(tasks[id].frames_data)
    /\ disk' = [disk EXCEPT ![videos[id].results_dir].results_file.entries =
                    Append(@, tasks[id].frames_data[tasks[id].written + 1])]
    /\ tasks' = [tasks EXCEPT ![id].written = @ + 1]
    /\ reply' = NoReply
    /\ UNCHANGED <<alive, videos, crashes, config, caps, selVars, resVars, assessVars, lazyVars, detVars>>

\* a write raises OSError (the disk is full): the handler of process_video runs
SaveFail(id) ==
    /\ alive
    /\ tasks[id].pc = "dump"
    /\ Failed(id, "results file write failed")
    /\ reply' = NoReply
    /\ UNCHANGED <<alive, disk, crashes, config, caps, selVars, resVars, assessVars, lazyVars, detVars>>

\* the last piece is written and the file closed: _save_results returns
SaveClose(id) ==
    /\ alive
    /\ tasks[id].pc = "dump"
    /\ tasks[id].written = Len(tasks[id].frames_data)
    /\ disk' = [disk EXCEPT ![videos[id].results_dir].results_file.complete = TRUE]
    /\ tasks' = [tasks EXCEPT ![id].pc = "saved"]
    /\ reply' = NoReply
    /\ UNCHANGED <<alive, videos, crashes, config, caps, selVars, resVars, assessVars, lazyVars, detVars>>

\* video_info.status = "completed"
CompletedStatus_processing == "processing"
CompletedStatus == "completed"
MarkCompleted(id) ==
    /\ alive
    /\ tasks[id].pc = "saved"
    /\ videos' = [videos EXCEPT ![id].status = CompletedStatus]
    /\ tasks' = [tasks EXCEPT ![id].pc = "done"]
    /\ reply' = NoReply
    /\ UNCHANGED <<alive, disk, crashes, config, caps, selVars, resVars, assessVars, lazyVars, detVars>>

\* The process dies: the registry, the tasks and the capabilities are lost,
\* the uploads directory stays.
Crash ==
    /\ alive
    /\ crashes < MaxCrashes
    /\ alive' = FALSE
    /\ crashes' = crashes + 1
    /\ videos' = <<>>
    /\ tasks' = [id \in DOMAIN tasks |-> TaskIdle]
    /\ caps' = {}
    /\ reply' = NoReply
    /\ UNCHANGED <<disk, config, selVars, resVars, assessVars, lazyVars, detVars>>

\* _load_existing_videos: the status of a directory that holds a video file
ScannedStatus(dir) ==
    IF dir.results_file.exists THEN "completed"
    ELSE IF dir.results_dir THEN "failed"
    ELSE "processing"

\* The process is started: VideoProcessorManager() scans data/uploads
Startup ==
    /\ ~alive
    /\ alive' = TRUE
    /\ videos' = [id \in { j \in DOMAIN disk : disk[j].video # <<>> } |->
                    VideoInfo(id, ScannedStatus(disk[id]))]
    /\ reply' = NoReply
    /\ UNCHANGED <<tasks, disk, crashes, config, caps, selVars, resVars, assessVars, lazyVars, detVars>>

(***************************************************************************)
(* The lazy getters of the manager, called by the threads of two jobs      *)
(***************************************************************************)
\* process_video is a plain function: each background task runs it in a
\* thread of the pool, so the jobs of two uploads run side by side.
JobPair == {"v1", "v2"}

\* The getters a job calls, in the order it calls them.
GetterOrder == DetectorCaps \o SearchCaps
CapNames == { GetterOrder[k] : k \in 1 .. Len(GetterOrder) }

\* self.detector = None, ...: no capability constructed, the field holds None (0)
NoInstances == [c \in CapNames |-> [built |-> 0, cached |-> 0]]
LazyIdle ==
    /\ instances = NoInstances
    /\ calls = <<>>
    /\ detIn = <<>>
    /\ detOut = <<>>

\* "if self.detector is None:" the thread of job id reads the field
FieldIsNone(cap) == instances[cap].cached = 0

GetterTest(id) ==
    /\ calls[id].pc = "test"
    /\ LET cap == GetterOrder[calls[id].k]
       IN  calls' = [calls EXCEPT ![id].pc =
                       IF FieldIsNone(cap) THEN "construct" ELSE "return"]
    /\ UNCHANGED <<instances, jobVars, selVars, resVars, assessVars, detVars>>

\* "self.detector = ClothingDetector()": a new instance is constructed and stored
GetterConstruct(id) ==
    /\ calls[id].pc = "construct"
    /\ LET cap == GetterOrder[calls[id].k]
       IN  /\ instances' = [instances EXCEPT ![cap] =
                               [built |-> @.built + 1, cached |-> @.built + 1]]
           /\ caps' = caps \cup {cap}
    /\ calls' = [calls EXCEPT ![id].pc = "return"]
    /\ UNCHANGED <<alive, videos, tasks, disk, reply, crashes, config, selVars, resVars,
                   assessVars, detVars>>

\* the constructor raises (a model file is missing): the getter raises
GetterConstructFails(id) ==
    /\ calls[id].pc = "construct"
    /\ calls' = [calls EXCEPT ![id].pc = "raised"]
    /\ UNCHANGED <<instances, jobVars, selVars, resVars, assessVars, detVars>>

\* "return self.detector": the field is read again and returned; the job goes
\* on to its next getter
GetterReturn(id) ==
    /\ calls[id].pc = "return"
    /\ LET cap == GetterOrder[calls[id].k]
       IN  calls' = [calls EXCEPT
                       ![id].got = Append(@, instances[cap].cached),
                       ![id].k = IF @ < Len(GetterOrder) THEN @ + 1 ELSE @,
                       ![id].pc = IF calls[id].k < Len(GetterOrder) THEN "test" ELSE "done"]
    /\ UNCHANGED <<instances, jobVars, selVars, resVars, assessVars, detVars>>

(***************************************************************************)
(* Specifications: one per operation, its inputs drawn from bounded sets   *)
(***************************************************************************)
\* The value of each machine's variables in a specification that does not run it.
SelectIdleIn ==
    [ source |-> [n \in FrameIdx |-> Unreadable], center |-> 0, fpsN |-> 1,
      enable_quality_check |-> TRUE ]

DefaultConfig == [enable_quality_check |-> TRUE, enable_person_detection |-> TRUE]
JobIdle ==
    /\ alive = TRUE
    /\ videos = <<>>
    /\ tasks = [id \in JobIds |-> TaskIdle]
    /\ disk = [id \in JobIds |-> EmptyDir]
    /\ reply = NoReply
    /\ crashes = 0
    /\ config = DefaultConfig
    /\ caps = {}

\* assess_frame_quality on the metrics a frame of 8-bit pixels can have:
\* a mean in 0 .. 255, a variance and a standard deviation from 0 up.
MaxPixel == 255
SharpnessValues ==
    {0, 1, BlurThreshold, MaxUsefulSharpness - 1, MaxUsefulSharpness, MaxSharpness}
ContrastValues == {0, 1, MaxUsefulContrast - 1, MaxUsefulContrast, MaxContrast}
AssessIdle ==
    /\ assessIn = [metrics |-> [sharpness |-> 0, brightness |-> 0, contrast |-> 0],
                   enable_quality_check |-> TRUE]
    /\ assessOut = <<>>
AssessInit ==
    /\ assessIn \in [ metrics : [sharpness : SharpnessValues, brightness : 0 .. MaxPixel,
                                  contrast : ContrastValues],
                       enable_quality_check : BOOLEAN ]
    /\ assessOut = <<>>
    /\ selIn = SelectIdleIn
    /\ sel = SelectEntry(0)
    /\ resIn = <<>>
    /\ res = ResolveEntry
    /\ JobIdle
    /\ LazyIdle
AssessNext == Assess
SpecAssess == AssessInit /\ [][AssessNext]_vars

SelectInit ==
    /\ selIn \in [ source : [FrameIdx -> FrameKinds],
                   center : FrameIdx,
                   fpsN : 1 .. MaxFpsN,
                   enable_quality_check : BOOLEAN ]
    /\ sel = SelectEntry(selIn.center)
    /\ resIn = <<>>
    /\ res = ResolveEntry
    /\ AssessIdle
    /\ LazyIdle
    /\ JobIdle

SelectNext == SelectProbe \/ SelectReturn

SpecSelect == SelectInit /\ [][SelectNext]_vars

\* Batches of up to MaxDetections detections, and batches of one more over a
\* few detections of one category.
LongInputs ==
    { d \in DetectionInputs : d.category = "clothing" }
ResolveInit ==
    /\ resIn \in UNION { [1 .. n -> DetectionInputs] : n \in 0 .. MaxDetections }
                 \cup [1 .. (MaxDetections + 1) -> LongInputs]
    /\ res = ResolveEntry
    /\ AssessIdle
    /\ LazyIdle
    /\ selIn = SelectIdleIn
    /\ sel = SelectEntry(0)
    /\ JobIdle

ResolveNext == ResolveStep \/ ResolveReturn

SpecResolve == ResolveInit /\ [][ResolveNext]_vars

\* get_results on a registered job whose results file holds drawn entries.
StoredSeconds == {0, 5, 6, 15, 30, 31}
StoredEntry(sec) ==
    [ timestamp |-> sec * TicksPerSecond,
      products |-> <<MakeProduct([label |-> "top", confidence |-> 9, category |-> "clothing"],
                                 sec, "c1")>> ]
StoredFiles ==
    { [exists |-> TRUE, complete |-> c, entries |-> [k \in DOMAIN f |-> StoredEntry(f[k])]] :
        f \in { g \in UNION { [1 .. m -> StoredSeconds] : m \in 0 .. MaxStored } :
                  \A i, j \in DOMAIN g : g[i] = g[j] => i = j },
        c \in BOOLEAN }

GetInit ==
    /\ alive = TRUE
    /\ \E st \in {"processing", "completed", "failed"} :
          videos = [id \in JobIds |-> VideoInfo(id, st)]
    /\ tasks = [id \in JobIds |-> TaskIdle]
    /\ \E file \in StoredFiles \cup {NoFile} :
          disk = [id \in JobIds |->
                    [video |-> <<>>, results_dir |-> TRUE, results_file |-> file, files |-> {}]]
    /\ reply = NoReply
    /\ crashes = 0
    /\ config = DefaultConfig
    /\ caps = {}
    /\ selIn = SelectIdleIn
    /\ sel = SelectEntry(0)
    /\ resIn = <<>>
    /\ res = ResolveEntry
    /\ AssessIdle
    /\ LazyIdle

GetNext == \E id \in JobIds, time \in QueryTimes : GetResults(id, time)

SpecGet == GetInit /\ [][GetNext]_vars

\* The server: uploads, their background tasks, readers, crashes and restarts.
JobQueryTimes == { 0, Interval }

Init ==
    /\ alive = TRUE
    /\ videos = <<>>
    /\ tasks = [id \in JobIds |-> TaskIdle]
    /\ disk = [id \in JobIds |-> EmptyDir]
    /\ reply = NoReply
    /\ crashes = 0
    /\ config \in [enable_quality_check : BOOLEAN, enable_person_detection : BOOLEAN]
    /\ caps = {}
    /\ selIn = SelectIdleIn
    /\ sel = SelectEntry(0)
    /\ resIn = <<>>
    /\ res = ResolveEntry
    /\ AssessIdle
    /\ LazyIdle

Next ==
    \/ \E id \in JobIds :
          \/ Upload(id)
          \/ StartProcessing(id)
          \/ OpenVideo(id)
          \/ ProcessInterval(id)
          \/ FinishExtraction(id)
          \/ SaveOpen(id)
          \/ SaveWrite(id)
          \/ SaveFail(id)
          \/ SaveClose(id)
          \/ MarkCompleted(id)
          \/ \E time \in JobQueryTimes : GetResults(id, time)
    \/ Crash
    \/ Startup

Spec == Init /\ [][Next]_vars

\* A long video processed where no detector, crop or search fails, and then
\* queried: some frames cannot be read, every frame read is sharp and shows a
\* person, and the clothing detector finds nothing, a top or another thing.
MaxLongFrames == 9
MaxLongIntervals == 5
LongVideoFiles ==
    { v \in [opens : {TRUE}, fpsN : JobFps \ {0}, total_frames : 1 .. MaxLongFrames] :
        /\ FrameInterval(v.fpsN) >= 1
        /\ v.total_frames <= MaxLongIntervals * FrameInterval(v.fpsN) }
QuietEnv ==
    [ frames |-> { Unreadable, Metrics(1000, 130, 80) },
      persons |-> { <<[score |-> 9, label |-> PersonLabel, box |-> <<10, 10, 60, 90>>]>> },
      raises |-> {FALSE},
      clothing |-> { [raises |-> FALSE, dets |-> <<>>],
                     [raises |-> FALSE,
                      dets |-> <<[score |-> 9, label |-> "top", box |-> <<5, 5, 20, 20>>]>>],
                     [raises |-> FALSE,
                      dets |-> <<[score |-> 9, label |-> "thing", box |-> <<5, 5, 20, 20>>]>>] },
      jewelry |-> { [raises |-> FALSE, dets |-> <<>>] },
      answers |-> { [crop_ok |-> TRUE, clothing |-> "c1", jewelry |-> "j1"] } ]
LookupQueryTimes == { s * TicksPerSecond : s \in 0 .. MaxQuerySeconds }

LookupInit ==
    /\ alive = TRUE
    /\ videos = [id \in JobIds |-> VideoInfo(id, "processing")]
    /\ tasks = [id \in JobIds |-> [TaskIdle EXCEPT !.pc = "queued"]]
    /\ \E file \in LongVideoFiles :
          disk = [id \in JobIds |-> [EmptyDir EXCEPT !.video = <<file>>]]
    /\ reply = NoReply
    /\ crashes = 0
    /\ config = DefaultConfig
    /\ caps = {}
    /\ selIn = SelectIdleIn
    /\ sel = SelectEntry(0)
    /\ resIn = <<>>
    /\ res = ResolveEntry
    /\ AssessIdle
    /\ LazyIdle

LookupNext ==
    \E id \in JobIds :
        \/ StartProcessing(id)
        \/ OpenVideo(id)
        \/ ProcessIntervalIn(id, QuietEnv)
        \/ FinishExtraction(id)
        \/ SaveOpen(id)
        \/ SaveWrite(id)
        \/ SaveFail(id)
        \/ SaveClose(id)
        \/ MarkCompleted(id)
        \/ \E time \in LookupQueryTimes : GetResults(id, time)

SpecLookup == LookupInit /\ [][LookupNext]_vars

\* Two jobs run on a manager that has constructed nothing yet: the getters
\* they call.
GettersInit ==
    /\ detIn = <<>>
    /\ detOut = <<>>
    /\ instances = NoInstances
    /\ calls = [id \in JobPair |-> [pc |-> "test", k |-> 1, got |-> <<>>]]
    /\ JobIdle
    /\ selIn = SelectIdleIn
    /\ sel = SelectEntry(0)
    /\ resIn = <<>>
    /\ res = ResolveEntry
    /\ AssessIdle

GettersNext ==
    \E id \in JobPair :
        \/ GetterTest(id)
        \/ GetterConstruct(id)
        \/ GetterConstructFails(id)
        \/ GetterReturn(id)

SpecGetters == GettersInit /\ [][GettersNext]_vars

\* Two uploads whose jobs run side by side, and calls of process_video for
\* ids that are not registered. The videos are short and every frame of them
\* is sharp and shows a person; the clothing detector finds nothing or a top.
PairVideoFiles ==
    { [opens |-> TRUE, fpsN |-> FpsDen, total_frames |-> 1],
      [opens |-> FALSE, fpsN |-> 0, total_frames |-> 0] }
PairEnv ==
    [ frames |-> { Metrics(1000, 130, 80) },
      persons |-> { <<[score |-> 9, label |-> PersonLabel, box |-> <<10, 10, 60, 90>>]>> },
      raises |-> {FALSE},
      clothing |-> { [raises |-> FALSE, dets |-> <<>>],
                     [raises |-> FALSE,
                      dets |-> <<[score |-> 9, label |-> "top", box |-> <<5, 5, 20, 20>>]>>] },
      jewelry |-> { [raises |-> FALSE, dets |-> <<>>] },
      answers |-> { [crop_ok |-> TRUE, clothing |-> "c1", jewelry |-> "j1"] } ]

PairInit ==
    /\ alive = TRUE
    /\ videos = <<>>
    /\ tasks = [id \in JobPair |-> TaskIdle]
    /\ disk = [id \in JobPair |-> EmptyDir]
    /\ reply = NoReply
    /\ crashes = 0
    /\ config = DefaultConfig
    /\ caps = {}
    /\ selIn = SelectIdleIn
    /\ sel = SelectEntry(0)
    /\ resIn = <<>>
    /\ res = ResolveEntry
    /\ AssessIdle
    /\ LazyIdle

PairNext ==
    \/ \E id \in JobPair :
          \/ UploadIn(id, PairVideoFiles)
          \/ ProcessUnregistered(id)
          \/ StartProcessing(id)
          \/ OpenVideo(id)
          \/ ProcessIntervalIn(id, PairEnv)
          \/ FinishExtraction(id)
          \/ SaveOpen(id)
          \/ SaveWrite(id)
          \/ SaveFail(id)
          \/ SaveClose(id)
          \/ MarkCompleted(id)
    \/ UploadNotVideo

SpecPair == PairInit /\ [][PairNext]_vars

\* detect_persons and _detect_objects_in_frame on what the models can answer
\* for a frame of ImageSize: person boxes at and around 5% of the frame, at
\* the frame's edges and inside it; scores below, at and above the thresholds.
SmallBox == <<0, 0, 20, 24>>
EdgeBox == <<0, 0, 20, 25>>
PersonBoxes ==
    { EdgeBox, <<10, 10, 60, 90>>, <<1, 2, 41, 99>>, <<30, 10, 69, 50>>, <<60, 0, 100, 100>> }
PersonAnswerDets ==
    [ score : {6, 9}, label : {PersonLabel, PersonLabel + 1},
      box : {SmallBox, EdgeBox, <<10, 10, 60, 90>>} ]
PersonInputs ==
    { [kind |-> "persons", enabled |-> e, answer |-> a] :
        e \in BOOLEAN,
        a \in { [raises |-> TRUE, dets |-> <<>>] } \cup
              { [raises |-> FALSE, dets |-> d] :
                  d \in UNION { [1 .. n -> PersonAnswerDets] : n \in 0 .. MaxDetections } } }
ClothingAnswerDets ==
    [ score : {ClothingThreshold - 1, ClothingThreshold, 9}, label : {"top"},
      box : {<<0, 0, 5, 5>>, <<3, 4, 10, 12>>} ]
JewelryAnswerDets ==
    [ score : {JewelryThreshold - 1, JewelryThreshold, 8}, label : {"ring"},
      box : {<<2, 2, 4, 4>>} ]
ObjectInputs ==
    { [kind |-> "objects", person_box |-> b, clothing |-> c, jewelry |-> j] :
        b \in { <<>> } \cup { <<pb>> : pb \in PersonBoxes },
        c \in { [raises |-> TRUE, dets |-> <<>>] } \cup
              { [raises |-> FALSE, dets |-> d] :
                  d \in UNION { [1 .. n -> ClothingAnswerDets] : n \in 0 .. MaxDetections } },
        j \in { [raises |-> TRUE, dets |-> <<>>] } \cup
              { [raises |-> FALSE, dets |-> d] :
                  d \in UNION { [1 .. n -> JewelryAnswerDets] : n \in 0 .. 1 } } }

\* detection_image: the region of the frame handed to both detectors
DetectionRegion(person_box) ==
    IF person_box = <<>> THEN <<0, 0, ImageSize[1], ImageSize[2]>>
    ELSE CropBox(person_box[1])

DetectPersonsCall ==
    /\ detIn.kind = "persons"
    /\ detOut = <<>>
    /\ detOut' = <<DetectPersons(detIn.enabled, detIn.answer)>>
    /\ UNCHANGED <<detIn, instances, calls, jobVars, selVars, resVars, assessVars>>

DetectObjectsCall ==
    /\ detIn.kind = "objects"
    /\ detOut = <<>>
    /\ detOut' = <<[ region |-> DetectionRegion(detIn.person_box),
                     result |-> DetectObjectsInFrame(detIn.clothing, detIn.jewelry,
                                                     detIn.person_box) ]>>
    /\ UNCHANGED <<detIn, instances, calls, jobVars, selVars, resVars, assessVars>>

DetectInit ==
    /\ detIn \in PersonInputs \cup ObjectInputs
    /\ detOut = <<>>
    /\ instances = NoInstances
    /\ calls = <<>>
    /\ JobIdle
    /\ selIn = SelectIdleIn
    /\ sel = SelectEntry(0)
    /\ resIn = <<>>
    /\ res = ResolveEntry
    /\ AssessIdle

DetectNext == DetectPersonsCall \/ DetectObjectsCall

SpecDetect == DetectInit /\ [][DetectNext]_vars

\* A step of the background task of job id.
TaskStep(id) ==
    \/ StartProcessing(id)
    \/ OpenVideo(id)
    \/ ProcessInterval(id)
    \/ FinishExtraction(id)
    \/ SaveOpen(id)
    \/ SaveWrite(id)
    \/ SaveFail(id)
    \/ SaveClose(id)
    \/ MarkCompleted(id)

(***************************************************************************)
(* Claims about assess_frame_quality (checked under SpecAssess)            *)
(***************************************************************************)
\* C17: the score returned for a frame lies between 0 and 1 inclusive; with
\* the quality check enabled it is 0.5 min(sharpness/1000, 1)
\* + 0.3 max(0, 1 - |brightness - midpoint| / half window)
\* + 0.2 min(contrast/80, 1), the midpoint and the half window those of the
\* brightness window [40, 220].
C17_ScoreBounds ==
    assessOut # <<>> =>
        LET m == assessIn.metrics
            score == assessOut[1].score
            tenth == ScoreOne \div 10
            half2 == MaxBrightness - MinBrightness          \* twice the half window
            dev2 == Abs(2 * m.brightness - (MinBrightness + MaxBrightness))
            sharp == IF m.sharpness >= 1000 THEN tenth ELSE (tenth \div 1000) * m.sharpness
            bright == IF dev2 >= half2 THEN 0 ELSE tenth - (tenth \div half2) * dev2
            contrast == IF m.contrast >= 80 THEN tenth ELSE (tenth \div 80) * m.contrast
        IN  /\ 0 <= score
            /\ score <= ScoreOne
            /\ assessIn.enable_quality_check =>
                  score = 5 * sharp + 3 * bright + 2 * contrast

\* C17 witness: a frame sharper and of more contrast than the useful maxima,
\* at the middle of the brightness window, scores exactly 1.
C17_Witness ==
    /\ assessOut # <<>>
    /\ assessIn.enable_quality_check
    /\ assessIn.metrics.sharpness > MaxUsefulSharpness
    /\ assessIn.metrics.contrast > MaxUsefulContrast
    /\ 2 * assessIn.metrics.brightness = MinBrightness + MaxBrightness
    /\ assessOut[1].score = ScoreOne

(***************************************************************************)
(* Claims about _select_best_frame_in_range (checked under SpecSelect)     *)
(***************************************************************************)
SelRadius == SearchRangeFrames(selIn.fpsN)
SelFrame(n) == ReadFrame(selIn.source, n)
SelVerdict(n) == AssessFrameQuality(selIn.enable_quality_check, SelFrame(n))
SelPasses(n) == SelFrame(n).ok /\ SelVerdict(n).is_good

\* The indices of the search window that are valid frame positions (>= 0),
\* in the probe order center, center+1, center-1, ...
InWindow(n) == n >= 0 /\ n >= selIn.center - SelRadius /\ n <= selIn.center + SelRadius
WindowProbes ==
    SelectSeq([k \in 1 .. (2 * SelRadius + 1) |-> selIn.center + Offsets(SelRadius)[k]],
              InWindow)
WindowReadable == { k \in 1 .. Len(WindowProbes) : SelFrame(WindowProbes[k]).ok }

\* C1: probing stops as soon as a readable frame that passes quality has been
\* read: a readable passing frame is always the last frame read, whatever the
\* scores of the non-passing frames read before it.
C1_ShortCircuit ==
    \A k \in 1 .. Len(sel.reads) : SelPasses(sel.reads[k]) => k = Len(sel.reads)

\* C2: when the frame at center_index is readable and passes quality (always
\* so when quality checking is disabled and the frame is readable), the run
\* returns exactly that frame with its score and has read no other index.
C2_CenterLocality ==
    /\ (sel.pc = "done" /\ SelPasses(selIn.center)) =>
            /\ sel.result = <<[frame |-> SelFrame(selIn.center),
                               frame_num |-> selIn.center,
                               quality |-> SelVerdict(selIn.center).score]>>
            /\ sel.reads = <<selIn.center>>
    /\ (sel.pc = "done" /\ ~selIn.enable_quality_check /\ SelFrame(selIn.center).ok) =>
            /\ sel.result # <<>>
            /\ sel.result[1].frame_num = selIn.center
            /\ sel.result[1].quality = ScoreOne

\* C2 witness: a passing center frame is returned although a neighbour in the
\* window scores higher.
C2_Witness ==
    /\ sel.pc = "done"
    /\ selIn.enable_quality_check
    /\ SelPasses(selIn.center)
    /\ \E k \in WindowReadable :
            SelVerdict(WindowProbes[k]).score > SelVerdict(selIn.center).score
    /\ sel.result # <<>> /\ sel.result[1].frame_num = selIn.center

C18_ReturnsPassing ==
    (sel.pc = "done" /\ \E k \in 1 .. Len(WindowProbes) : SelPasses(WindowProbes[k])) =>
        /\ sel.result # <<>>
        /\ SelPasses(sel.result[1].frame_num)

\* floor(fps * radius_seconds), fps = fpsN / FpsDen
FloorRadius ==
    CHOOSE R \in 0 .. (MaxFpsN * FallbackSearchRange) :
        /\ R * FpsDen <= selIn.fpsN * FallbackSearchRange
        /\ selIn.fpsN * FallbackSearchRange < (R + 1) * FpsDen
NotNegative(n) == n >= 0
\* center, center+1, center-1, ..., center+R, center-R without the indices below 0
ProbeOrder ==
    SelectSeq([k \in 1 .. (2 * FloorRadius + 1) |->
                 IF k = 1 THEN selIn.center
                 ELSE IF k % 2 = 0 THEN selIn.center + k \div 2
                 ELSE selIn.center - k \div 2],
              NotNegative)

\* C19: the indices are read in the order center, center+1, center-1,
\* center+2, center-2, ... up to the radius floor(fps * radius_seconds);
\* no index below 0 or outside the window is read; an index that cannot be
\* read does not end the search.
C19_ProbeOrder ==
    /\ Len(sel.reads) <= Len(ProbeOrder)
    /\ \A k \in 1 .. Len(sel.reads) :
          /\ sel.reads[k] = ProbeOrder[k]
          /\ sel.reads[k] >= 0
          /\ sel.reads[k] >= selIn.center - FloorRadius
          /\ sel.reads[k] <= selIn.center + FloorRadius
    /\ ( /\ sel.pc # "loop"
         /\ sel.reads # <<>>
         /\ ~SelFrame(sel.reads[Len(sel.reads)]).ok ) => sel.reads = ProbeOrder

\* C19 witness: the center cannot be read, the window is clipped at 0, and
\* the search has gone on to center+1, center-1 and center+2.
C19_Witness ==
    /\ sel.pc = "done"
    /\ FloorRadius = 2
    /\ selIn.center = 1
    /\ ~SelFrame(1).ok
    /\ sel.reads = <<1, 2, 0, 3>>

(***************************************************************************)
(* Claims about _find_similar_products (checked under SpecResolve)         *)
(***************************************************************************)
DetIdx == 1 .. Len(resIn)
\* What the index of the detection's own category answers for it.
OwnAnswer(k) ==
    IF resIn[k].category = "clothing" THEN resIn[k].env.clothing
    ELSE IF resIn[k].category = "jewelry" THEN resIn[k].env.jewelry
    ELSE "none"
\* Detection k resolves to a match: its crop is made and its own index returns a path.
Resolved(k) ==
    /\ resIn[k].env.crop_ok
    /\ resIn[k].category \in {"clothing", "jewelry"}
    /\ OwnAnswer(k) \notin {"raise", "none"}
ResolvedTo(url) == { k \in DetIdx : Resolved(k) /\ OwnAnswer(k) = url }
MaxConfidence(S) == CHOOSE c \in { resIn[k].confidence : k \in S } :
                        \A k \in S : resIn[k].confidence <= c
FirstAtMax(S) == CHOOSE k \in S :
                    /\ resIn[k].confidence = MaxConfidence(S)
                    /\ \A j \in S : resIn[j].confidence = MaxConfidence(S) => k <= j

\* C4: the returned list holds at most one Product per image_url, one for
\* every image_url some detection resolved to; that Product carries the
\* maximum confidence among the detections resolved to the image_url and is
\* the Product of the first detection, in input order, that attains it.
C4_DedupMax ==
    res.pc = "done" =>
        /\ \A i, j \in 1 .. Len(res.result) :
              res.result[i].image_url = res.result[j].image_url => i = j
        /\ \A k \in DetIdx :
              Resolved(k) => \E i \in 1 .. Len(res.result) :
                                res.result[i].image_url = OwnAnswer(k)
        /\ \A i \in 1 .. Len(res.result) :
              LET S == ResolvedTo(res.result[i].image_url)
              IN  /\ S # {}
                  /\ res.result[i].confidence = MaxConfidence(S)
                  /\ res.result[i].direct_url = FirstAtMax(S)
                  /\ res.result[i].object_type = resIn[FirstAtMax(S)].label
                  /\ res.result[i].category = resIn[FirstAtMax(S)].category

\* C4 witness: two detections resolve to the same image_url, the second with
\* the strictly greater confidence, and the one Product returned is the second's.
C4_Witness ==
    /\ res.pc = "done"
    /\ Len(resIn) >= 2
    /\ Resolved(1) /\ Resolved(2) /\ OwnAnswer(1) = OwnAnswer(2)
    /\ resIn[1].confidence < resIn[2].confidence
    /\ Len(res.result) = 1
    /\ res.result[1].direct_url = 2
    /\ res.result[1].confidence = resIn[2].confidence

\* C10: every similarity query goes to the index of the detection's own
\* category (clothing or jewelry), a returned Product carries the path its own
\* category's index answered, and a detection of any other category is never
\* queried in either index and yields no Product.
C10_CategoryIsolation ==
    /\ \A q \in 1 .. Len(res.queries) :
          /\ res.queries[q].index \in {"clothing", "jewelry"}
          /\ res.queries[q].index = resIn[res.queries[q].idx].category
    /\ \A k \in DetIdx :
          resIn[k].category \notin {"clothing", "jewelry"} =>
              /\ \A q \in 1 .. Len(res.queries) : res.queries[q].idx # k
              /\ \A i \in 1 .. Len(res.unique_products) : res.unique_products[i].direct_url # k
              /\ \A i \in 1 .. Len(res.result) : res.result[i].direct_url # k
    /\ \A i \in 1 .. Len(res.result) :
          LET k == res.result[i].direct_url
          IN  /\ resIn[k].category \in {"clothing", "jewelry"}
              /\ res.result[i].image_url = OwnAnswer(k)

\* C10 witness: a jewelry detection for which the two indices answer with
\* different paths yields the jewelry index's path, and a detection of unknown
\* category whose crop both indices would match is skipped.
C10_Witness ==
    /\ res.pc = "done"
    /\ \E k, u \in DetIdx :
          /\ resIn[k].category = "jewelry"
          /\ resIn[k].env = [crop_ok |-> TRUE, clothing |-> "c1", jewelry |-> "j1"]
          /\ resIn[u].category = "unknown"
          /\ resIn[u].env = [crop_ok |-> TRUE, clothing |-> "c1", jewelry |-> "j1"]
          /\ Len(res.result) = 1
          /\ res.result[1].image_url = "j1"
          /\ res.queries = <<[index |-> "jewelry", idx |-> k]>>

\* Detection k is dropped by an error: its crop or save raises, or the search
\* of its own index raises.
Errs(k) ==
    \/ ~resIn[k].env.crop_ok
    \/ resIn[k].category \in {"clothing", "jewelry"} /\ OwnAnswer(k) = "raise"
Handled == 1 .. (res.idx - 1)

\* C11: a detection whose crop or search fails is dropped and nothing else:
\* after it, the Products merged from the detections handled so far are those
\* of the detections that succeeded (the failing ones contribute none and
\* remove none), every detection of the batch is handled, and the list
\* returned holds exactly the merged Products.
C11_ResolutionFailureIsolated ==
    /\ \A k \in Handled :
          Errs(k) =>
              /\ \E j \in 1 .. Len(res.dropped) : res.dropped[j] = k
              /\ \A i \in 1 .. Len(res.unique_products) : res.unique_products[i].direct_url # k
    /\ \A k \in Handled :
          Resolved(k) =>
              \E i \in 1 .. Len(res.unique_products) :
                  LET S == ResolvedTo(OwnAnswer(k)) \cap Handled
                  IN  /\ res.unique_products[i].image_url = OwnAnswer(k)
                      /\ res.unique_products[i].confidence = MaxConfidence(S)
                      /\ res.unique_products[i].direct_url \in S
    /\ res.pc = "done" =>
          /\ res.idx = Len(resIn) + 1
          /\ Len(res.result) = Len(res.unique_products)
          /\ { res.result[i] : i \in 1 .. Len(res.result) }
                = { res.unique_products[i] : i \in 1 .. Len(res.unique_products) }

\* C11 witness: a detection that fails lies between two that resolve to
\* different images; both Products are returned.
C11_Witness ==
    /\ res.pc = "done"
    /\ \E a, b, c \in DetIdx :
          /\ a < b /\ b < c
          /\ Resolved(a) /\ Errs(b) /\ Resolved(c)
          /\ OwnAnswer(a) # OwnAnswer(c)
          /\ { res.result[i].direct_url : i \in 1 .. Len(res.result) } = {a, c}

\* The first detection, in input order, that resolved to url.
FirstInserted(url) == CHOOSE k \in ResolvedTo(url) : \A j \in ResolvedTo(url) : k <= j

NearestMultiple(R, t) == R % Interval = 0 /\ 2 * Abs(t - R) <= Interval
SameProducts(returned, stored) ==
    /\ Len(returned) = Len(stored)
    /\ \A i \in 1 .. Len(stored) :
          /\ returned[i].object_type = stored[i].object_type
          /\ returned[i].category = stored[i].category
          /\ returned[i].image_url = stored[i].image_url
          /\ returned[i].title = stored[i].title
          /\ returned[i].stock = stored[i].stock
          /\ returned[i].direct_url = stored[i].direct_url

\* C5: for a completed job with a readable results file, get_results rounds
\* the query time to a nearest multiple R of the interval; it returns the
\* product list of a stored timestamp nearest R when that distance is at most
\* 2 x interval (exactly 2 x interval included) and the empty list when the
\* nearest stored timestamp is farther than 2 x interval.
C5_TimestampTolerance ==
    \A id \in DOMAIN videos :
        ( /\ reply.kind = "results" /\ reply.id = id
          /\ videos[id].status = "completed"
          /\ disk[id].results_file.exists /\ disk[id].results_file.complete
          /\ disk[id].results_file.entries # <<>> ) =>
        LET entries == disk[id].results_file.entries
        IN  \E R \in { Interval * m : m \in -1 .. (MaxQuerySeconds \div IntervalSeconds + 1) } :
              /\ NearestMultiple(R, reply.time)
              /\ \E k \in 1 .. Len(entries) :
                    /\ \A j \in 1 .. Len(entries) :
                          Abs(entries[k].timestamp - R) <= Abs(entries[j].timestamp - R)
                    /\ IF Abs(entries[k].timestamp - R) <= 2 * Interval
                       THEN SameProducts(reply.products, entries[k].products)
                       ELSE reply.products = <<>>

\* C5 witness: the nearest stored timestamp lies exactly 2 x interval from the
\* rounded query time, which is not the query time itself, and its products
\* are returned.
C5_Witness ==
    /\ reply.kind = "results"
    /\ reply.products # <<>>
    /\ reply.time % Interval # 0
    /\ \A id \in DOMAIN videos :
          /\ videos[id].status = "completed"
          /\ \A j \in 1 .. Len(disk[id].results_file.entries) :
                \A R \in { Interval * m : m \in -1 .. (MaxQuerySeconds \div IntervalSeconds + 1) } :
                    NearestMultiple(R, reply.time) =>
                        Abs(disk[id].results_file.entries[j].timestamp - R) >= 2 * Interval

(***************************************************************************)
(* Claims about process_video and its results file (checked under Spec)    *)
(***************************************************************************)
JobFile(id) == disk[id].results_file

\* C6: a detector (clothing or jewelry) that fails while a frame is fused
\* contributes no detections and aborts neither the frame nor the job: no
\* job is failed by a detector failure during fusion.
C6_DetectorFailureIsolated ==
    \A id \in DOMAIN videos :
        ~ ( /\ videos[id].status = "failed"
            /\ videos[id].error_message = "clothing detector failed" )

\* The exceptions raised before _save_results is called: by the open of the
\* video source and by frame extraction.
ExtractionErrors ==
    { "Failed to open video", "capability failed to load",
      "range() arg 3 must not be zero", "clothing detector failed" }

\* C7: when the video source cannot be opened or an exception escapes frame
\* extraction, process_video has returned with the job failed, error_message
\* the text of the exception, and no results file written in that run.
C7_JobLevelFailure ==
    \A id \in DOMAIN videos :
        tasks[id].raised \in ExtractionErrors =>
            /\ tasks[id].pc = "done"
            /\ videos[id].status = "failed"
            /\ videos[id].error_message = tasks[id].raised
            /\ ~tasks[id].saved
            /\ ~JobFile(id).exists

\* C7 witness: extraction raised after an earlier interval had already
\* yielded products; the job is failed and nothing was written.
C7_Witness ==
    \E id \in DOMAIN videos :
        /\ tasks[id].raised \in ExtractionErrors
        /\ tasks[id].processed_count >= 1
        /\ tasks[id].frames_data # <<>>
        /\ videos[id].status = "failed"
        /\ ~JobFile(id).exists

\* C8: at every moment, a crash during the write included, the results file
\* is absent or holds the complete mapping (no job has a prior file).
C8_AtomicWrite ==
    \A id \in JobIds : JobFile(id).exists => JobFile(id).complete

\* C9: a job is completed only after its results file has been completely
\* written, and get_results returns the empty list to a reader of a job that
\* is not completed.
C9_CompletedAfterWritten ==
    \A id \in DOMAIN videos :
        /\ videos[id].status = "completed" =>
              (JobFile(id).exists /\ JobFile(id).complete)
        /\ (reply.kind = "results" /\ reply.id = id /\ videos[id].status # "completed") =>
              reply.products = <<>>

\* The iteration of the extraction loop that job id has just run.
Last(id) == tasks[id].last
\* A step of the extraction loop of job id that got past the frame selection.
GateStep(id) ==
    /\ tasks[id].pc = "loop"
    /\ tasks'[id] # tasks[id]
    /\ tasks'[id].last.kind \in {"skipped_person", "processed", "raised"}
\* The boxes of the detections are those the detectors returned.
Untranslated(l) ==
    l.detections = KeepDetections(l.clothing, ClothingThreshold, "clothing", 0, 0)
                   \o KeepDetections(l.jewelry, JewelryThreshold, "jewelry", 0, 0)

\* C12: when person gating is disabled, or the person detector raised for
\* the frame, the frame is not skipped, no person box is used and the
\* detections keep the boxes the detectors returned (full frame, no offset).
C12_GateFailsOpen ==
    \A id \in DOMAIN videos :
        ( /\ Last(id).kind \in {"skipped_person", "processed", "raised"}
          /\ \/ ~config.enable_person_detection
             \/ Last(id).present_raised
             \/ Last(id).box_raised ) =>
            /\ Last(id).kind # "skipped_person"
            /\ Last(id).person_box = <<>>
            /\ Untranslated(Last(id))

\* C13: with person gating enabled, an iteration whose selected frame shows
\* no person (the detector answered, and kept no person) stores no entry,
\* adds exactly one to skipped_person, calls neither
\* _detect_objects_in_frame nor _find_similar_products, and leaves the loop
\* at the next interval with the job still processing.
C13_NoPersonSkips ==
    [][ \A id \in JobIds :
          ( /\ GateStep(id)
            /\ config.enable_person_detection
            /\ ~tasks'[id].last.present_raised
            /\ KeepPersons(tasks'[id].last.persons) = <<>> ) =>
              /\ tasks'[id].last.kind = "skipped_person"
              /\ tasks'[id].last.calls = <<"is_person_present">>
              /\ tasks'[id].skipped_person = tasks[id].skipped_person + 1
              /\ tasks'[id].frames_data = tasks[id].frames_data
              /\ tasks'[id].processed_count = tasks[id].processed_count
              /\ tasks'[id].skipped_quality = tasks[id].skipped_quality
              /\ tasks'[id].pc = "loop"
              /\ tasks'[id].interval_idx =
                    tasks[id].interval_idx + FrameInterval(disk[id].video[1].fpsN)
              /\ videos' = videos ]_vars

\* C13 witness: an interval was skipped for showing no person after an
\* earlier interval had stored products.
C13_Witness ==
    \E id \in DOMAIN videos :
        /\ config.enable_person_detection
        /\ Last(id).kind = "skipped_person"
        /\ Last(id).persons = <<>> /\ ~Last(id).present_raised
        /\ tasks[id].skipped_person = 1
        /\ Len(tasks[id].frames_data) = 1

Running(id) == tasks[id].pc \in {"open", "loop", "save", "dump", "saved"}

\* The steps process_video of job id has left at most: it shrinks with every
\* step of the task and is 0 when process_video has returned.
StepsLeft(id) ==
    LET t == tasks[id]
        total == disk[id].video[1].total_frames
    IN  CASE t.pc = "open"  -> 2 * total + 5
          [] t.pc = "loop"  -> (total - Min2(t.interval_idx, total)) + total + 4
          [] t.pc = "save"  -> total + 3
          [] t.pc = "dump"  -> (Len(t.frames_data) - t.written) + 2
          [] t.pc = "saved" -> 1
          [] OTHER          -> 0

\* The task of job id has a step to take. (An iteration of the extraction
\* loop is enabled exactly when it has an outcome.)
CanStep(id) ==
    IF tasks[id].pc = "loop" /\ tasks[id].interval_idx < disk[id].video[1].total_frames
    THEN IntervalOutcomes(id) # {}
    ELSE ENABLED TaskStep(id)

\* C16: once process_video has started for a job, and while the process
\* lives, process_video returns with the job's status completed or failed:
\* a started task always has a next step to take, every step of it brings
\* the return nearer, and it returns with a status other than processing.
C16_JobTerminates ==
    /\ [](\A id \in JobIds : (alive /\ Running(id)) => CanStep(id))
    /\ [][ \A id \in JobIds :
              (Running(id) /\ alive' /\ tasks'[id] # tasks[id]) =>
                  /\ StepsLeft(id)' < StepsLeft(id)
                  /\ StepsLeft(id)' >= 0
                  /\ tasks'[id].pc = "done" =>
                        /\ id \in DOMAIN videos'
                        /\ videos'[id].status \in {"completed", "failed"} ]_vars

\* C16 witness: a job whose extraction went through two intervals, one of
\* them skipped, has returned completed.
C16_Witness ==
    \E id \in DOMAIN videos :
        /\ tasks[id].pc = "done"
        /\ videos[id].status = "completed"
        /\ tasks[id].processed_count = 1
        /\ tasks[id].skipped_quality + tasks[id].skipped_person = 1

(***************************************************************************)
(* Claims about the timestamps stored and looked up (checked under         *)
(* SpecLookup)                                                             *)
(***************************************************************************)
\* floor(fps * interval) of the video of job id
FramesPerInterval(id) ==
    CHOOSE n \in 0 .. (MaxFpsN * IntervalSeconds) :
        /\ n * FpsDen <= disk[id].video[1].fpsN * IntervalSeconds
        /\ disk[id].video[1].fpsN * IntervalSeconds < (n + 1) * FpsDen
\* The entries that the k-th sampling interval of job id stored: those whose
\* timestamp is the time of a frame of the k-th search window.
StoredBy(id, k) ==
    LET v == disk[id].video[1]
        center == k * FramesPerInterval(id)
        radius == CHOOSE R \in 0 .. (MaxFpsN * FallbackSearchRange) :
                      /\ R * FpsDen <= v.fpsN * FallbackSearchRange
                      /\ v.fpsN * FallbackSearchRange < (R + 1) * FpsDen
    IN  { j \in 1 .. Len(tasks[id].frames_data) :
            \E n \in (center - radius) .. (center + radius) :
                tasks[id].frames_data[j].timestamp * v.fpsN = n * FpsDen * TicksPerSecond }
\* The query time of the reply is nearest to k * interval (a tie goes to the even multiple).
RoundsTo(time, k) ==
    \/ 2 * Abs(time - k * Interval) < Interval
    \/ 2 * Abs(time - k * Interval) = Interval /\ k % 2 = 0
PublicFields(p) ==
    [ object_type |-> p.object_type, category |-> p.category, image_url |-> p.image_url,
      title |-> p.title, stock |-> p.stock, direct_url |-> p.direct_url ]

\* C20: for a completed job with fps > 0 and floor(fps * interval) >= 1, when
\* the k-th sampling interval stored a product list, a query whose time
\* rounds to k * interval is answered with exactly that list.
C20_LookupReturnsInterval ==
    \A id \in JobIds : \A k \in 0 .. (MaxLongIntervals - 1) :
        ( /\ reply.kind = "results"
          /\ reply.id = id
          /\ videos[id].status = "completed"
          /\ disk[id].video[1].fpsN > 0
          /\ FramesPerInterval(id) >= 1
          /\ RoundsTo(reply.time, k) )
        => \A j \in StoredBy(id, k) :
              reply.products =
                  [i \in 1 .. Len(tasks[id].frames_data[j].products) |->
                      PublicFields(tasks[id].frames_data[j].products[i])]

(***************************************************************************)
(* Claims about the registry over uploads, crashes and restarts (Spec)     *)
(***************************************************************************)
\* process_video of job id is scheduled or has started, and has not returned.
RunPending(id) == tasks[id].pc \in {"queued", "open", "loop", "save", "dump", "saved"}

\* C21: every job that the registry reports as processing has a run of the
\* pipeline pending or in progress, the jobs registered by the startup scan
\* included.
C21_ProcessingHasRun ==
    \A id \in DOMAIN videos :
        (alive /\ videos[id].status = "processing") => RunPending(id)

(***************************************************************************)
(* Claims about the lazy getters (checked under SpecGetters)               *)
(***************************************************************************)
\* C22: each lazily created capability is constructed at most once, also when
\* the threads of several jobs call its getter side by side, and every job is
\* handed the same instance.
C22_ConstructedOnce ==
    /\ \A cap \in CapNames : instances[cap].built <= 1
    /\ \A i, j \in DOMAIN calls :
          \A k \in 1 .. Len(GetterOrder) :
              (k <= Len(calls[i].got) /\ k <= Len(calls[j].got)) =>
                  calls[i].got[k] = calls[j].got[k]

(***************************************************************************)
(* Claims about the sampling loop of a job (checked under Spec)            *)
(***************************************************************************)
\* floor(fps * interval) of the video of job id is 0: fps * interval < 1
StepIsZero(id) == disk[id].video[1].fpsN * IntervalSeconds < FpsDen

\* C23: the sampling loop terminates for every fps and frame count, a frame
\* step of 0 included. With step 0 the loop is never entered and the job ends
\* failed; otherwise every iteration moves the loop forward, an iteration is
\* always possible while frames are left, and the loop is left either to the
\* save or with the job failed, never with the status left at processing.
C23_LoopTerminates ==
    /\ [](\A id \in JobIds :
            (alive /\ tasks[id].pc = "loop") => (~StepIsZero(id) /\ CanStep(id)))
    /\ [][ \A id \in JobIds :
              (alive' /\ tasks'[id] # tasks[id]) =>
                  /\ (tasks[id].pc = "open" /\ disk[id].video[1].opens /\ StepIsZero(id)) =>
                        /\ tasks'[id].pc = "done"
                        /\ videos'[id].status = "failed"
                  /\ (tasks[id].pc = "loop" /\ tasks'[id].pc = "loop") =>
                        /\ tasks[id].interval_idx < disk[id].video[1].total_frames
                        /\ tasks'[id].interval_idx > tasks[id].interval_idx
                  /\ tasks[id].pc = "loop" =>
                        \/ tasks'[id].pc \in {"loop", "save"}
                        \/ tasks'[id].pc = "done" /\ videos'[id].status = "failed" ]_vars

\* C23 witness: a video that reports fps 0 and some frames has been opened
\* with every detector loaded, and its job has ended failed.
C23_Witness ==
    \E id \in DOMAIN videos :
        /\ disk[id].video[1].opens
        /\ disk[id].video[1].fpsN = 0
        /\ disk[id].video[1].total_frames > 0
        /\ tasks[id].pc = "done"
        /\ tasks[id].raised = "range() arg 3 must not be zero"
        /\ videos[id].status = "failed"
        /\ caps = { DetectorCaps[k] : k \in 1 .. Len(DetectorCaps) }

(***************************************************************************)
(* Claims about two jobs that run side by side (checked under SpecPair)    *)
(***************************************************************************)
\* The step taken is a step of process_video of job id (not the upload that
\* schedules it, and not the death of the process).
ProcessStep(id) ==
    /\ tasks'[id] # tasks[id]
    /\ tasks'[id].pc # "queued"
    /\ alive'

\* C24: jobs for different videos never write the same results file, frame
\* image or crop image, and a step of one job changes neither the directory
\* (results file, images) nor the registry entry of another job.
C24_JobsWriteApart ==
    /\ [](\A dir \in DOMAIN disk :
            \A f, g \in disk[dir].files : f.file = g.file => f.by = g.by)
    /\ [](\A dir \in DOMAIN disk : \A f \in disk[dir].files : f.by = dir)
    /\ [][ \A i \in DOMAIN tasks :
              ProcessStep(i) =>
                  \A j \in DOMAIN tasks \ {i} :
                      /\ disk'[j] = disk[j]
                      /\ j \in DOMAIN videos => (j \in DOMAIN videos' /\ videos'[j] = videos[j])
         ]_vars

\* C24 witness: both jobs are completed; each wrote a frame image, a crop
\* image and a results file with an entry.
C24_Witness ==
    \A id \in JobPair :
        /\ id \in DOMAIN videos
        /\ videos[id].status = "completed"
        /\ \E f, g \in disk[id].files : f.file.kind = "frame" /\ g.file.kind = "crop"
        /\ disk[id].results_file.complete
        /\ disk[id].results_file.entries # <<>>

\* What a step of process_video of job id does to the registry: it leaves the
\* set of entries, every other entry, and the id, filename, file_path and
\* results_dir of its own entry as they are; for an id that is not registered
\* it changes nothing.
WritesOnlyStatus(id) ==
    /\ DOMAIN videos' = DOMAIN videos
    /\ \A j \in DOMAIN videos :
          \/ videos'[j] = videos[j]
          \/ /\ j = id
             /\ videos'[j].id = videos[j].id
             /\ videos'[j].filename = videos[j].filename
             /\ videos'[j].file_path = videos[j].file_path
             /\ videos'[j].results_dir = videos[j].results_dir
    /\ id \notin DOMAIN videos => videos' = videos

\* C28 as stated: process_video reads only file_path and results_dir of its
\* job record, writes only status and error_message, and changes no entry
\* when the id is not registered.
C28_ReadsTwoFields ==
    /\ [](\A id \in DOMAIN tasks : tasks[id].read \subseteq {"file_path", "results_dir"})
    /\ [][ \A id \in DOMAIN tasks : ProcessStep(id) => WritesOnlyStatus(id) ]_vars

\* C28 amended: process_video reads only id, file_path and results_dir of its
\* job record (the id for the thumbnail), writes only status and
\* error_message, and changes no entry when the id is not registered.
C28_ReadsThreeFields ==
    /\ [](\A id \in DOMAIN tasks : tasks[id].read \subseteq {"id", "file_path", "results_dir"})
    /\ [][ \A id \in DOMAIN tasks : ProcessStep(id) => WritesOnlyStatus(id) ]_vars

\* C28 witness: the job of v1 has run to the end and read its three fields,
\* and process_video was called for v2, which is not registered.
C28_Witness ==
    /\ "v1" \in DOMAIN videos
    /\ tasks["v1"].pc = "done"
    /\ videos["v1"].status = "completed"
    /\ tasks["v1"].read = {"id", "file_path", "results_dir"}
    /\ "v2" \notin DOMAIN videos
    /\ tasks["v2"].raised = "Video not found"

(***************************************************************************)
(* Claims about detect_persons and _detect_objects_in_frame (SpecDetect)   *)
(***************************************************************************)
\* _detect_objects_in_frame has returned (the clothing detector did not raise).
ObjectsReturned ==
    /\ detOut # <<>>
    /\ detIn.kind = "objects"
    /\ ~detOut[1].result.raised
\* The detections of a detector at or above its threshold, in its output order.
AtThreshold(dets, threshold) == SelectSeq(dets, LAMBDA d : d.score >= threshold)
KeptClothing == AtThreshold(detIn.clothing.dets, ClothingThreshold)
KeptJewelry ==
    AtThreshold(IF detIn.jewelry.raises THEN <<>> ELSE detIn.jewelry.dets, JewelryThreshold)
\* floor(5% of n)
FivePercent(n) == CHOOSE p \in 0 .. n : 100 * p <= 5 * n /\ 5 * n < 100 * (p + 1)
\* The person box expanded by 5% of its width and height, clamped to the frame.
PaddedBox(b) ==
    LET px == FivePercent(b[3] - b[1])
        py == FivePercent(b[4] - b[2])
    IN  << IF b[1] - px < 0 THEN 0 ELSE b[1] - px,
           IF b[2] - py < 0 THEN 0 ELSE b[2] - py,
           IF b[3] + px > ImageSize[1] THEN ImageSize[1] ELSE b[3] + px,
           IF b[4] + py > ImageSize[2] THEN ImageSize[2] ELSE b[4] + py >>

\* C25: with a person box, detection runs on that box expanded by floor(5%)
\* of its width and height and clamped to the frame, and every kept box of
\* both detectors is reported moved by the crop's top-left corner; with no
\* person box the whole frame is used and the boxes are reported unchanged.
C25_CropAndTranslate ==
    ObjectsReturned =>
        LET out == detOut[1].result.detections
            src == KeptClothing \o KeptJewelry
            region == IF detIn.person_box = <<>>
                      THEN <<0, 0, ImageSize[1], ImageSize[2]>>
                      ELSE PaddedBox(detIn.person_box[1])
            ox == IF detIn.person_box = <<>> THEN 0 ELSE region[1]
            oy == IF detIn.person_box = <<>> THEN 0 ELSE region[2]
        IN  /\ detOut[1].region = region
            /\ Len(out) = Len(src)
            /\ \A i \in 1 .. Len(src) :
                  out[i].box = << src[i].box[1] + ox, src[i].box[2] + oy,
                                  src[i].box[3] + ox, src[i].box[4] + oy >>

\* C25 witness: the person box <<30, 10, 69, 50>> (padding 1 and 2) gives the
\* crop <<29, 8, 70, 52>>; a clothing box and a jewelry box are both moved by
\* (29, 8).
C25_Witness ==
    /\ ObjectsReturned
    /\ detIn.person_box = << <<30, 10, 69, 50>> >>
    /\ detOut[1].region = <<29, 8, 70, 52>>
    /\ Len(detOut[1].result.detections) = 2
    /\ detOut[1].result.detections[1].category = "clothing"
    /\ detOut[1].result.detections[1].box = <<32, 12, 39, 20>>
    /\ detOut[1].result.detections[2].category = "jewelry"
    /\ detOut[1].result.detections[2].box = <<31, 10, 33, 12>>

\* detect_persons has returned.
PersonsReturned == detOut # <<>> /\ detIn.kind = "persons"
\* The model evaluated the frame: person detection is enabled and the model answered.
PersonsEvaluated == PersonsReturned /\ detIn.enabled /\ ~detIn.answer.raises
AreaOf(d) == (d.box[3] - d.box[1]) * (d.box[4] - d.box[2])
FrameArea == ImageSize[1] * ImageSize[2]

\* C26 as stated: detect_persons retains exactly the person-class detections
\* whose box area divided by the frame area exceeds min_person_area (a ratio
\* equal to it is not retained), and has_person is true exactly when a
\* detection is retained.
C26_RetainsAboveMinimum ==
    PersonsReturned =>
        /\ detOut[1].persons =
              SelectSeq(detIn.answer.dets,
                        LAMBDA d : /\ d.label = PersonLabel
                                   /\ AreaOf(d) * 100 > MinPersonAreaPercent * FrameArea)
        /\ detOut[1].has_person <=> detOut[1].persons # <<>>

\* C26 amended: when person detection is enabled and the model answers,
\* detect_persons retains exactly the person-class detections whose box area
\* divided by the frame area is at least min_person_area (a ratio equal to it
\* is retained), and has_person is true exactly when a detection is retained;
\* when detection is disabled or the model raises, has_person is true and
\* nothing is retained.
C26_RetainsAtLeastMinimum ==
    /\ PersonsEvaluated =>
          /\ detOut[1].persons =
                SelectSeq(detIn.answer.dets,
                          LAMBDA d : /\ d.label = PersonLabel
                                     /\ AreaOf(d) * 100 >= MinPersonAreaPercent * FrameArea)
          /\ detOut[1].has_person <=> detOut[1].persons # <<>>
    /\ (PersonsReturned /\ ~PersonsEvaluated) =>
          /\ detOut[1].has_person
          /\ detOut[1].persons = <<>>

\* C26 witness: the model found one person whose box covers exactly 5% of
\* the frame, and it was retained.
C26_Witness ==
    /\ PersonsEvaluated
    /\ Len(detIn.answer.dets) = 1
    /\ detIn.answer.dets[1].label = PersonLabel
    /\ AreaOf(detIn.answer.dets[1]) * 100 = MinPersonAreaPercent * FrameArea
    /\ detOut[1].has_person
    /\ Len(detOut[1].persons) = 1

\* C27: _detect_objects_in_frame returns exactly the detections of each
\* detector whose confidence is at or above that detector's threshold (equal
\* is kept), each tagged with its detector's category, the clothing
\* detections first and the jewelry detections after them, each group in the
\* order the detector gave.
C27_ThresholdTagOrder ==
    ObjectsReturned =>
        LET out == detOut[1].result.detections
            nc == Len(KeptClothing)
            nj == Len(KeptJewelry)
        IN  /\ Len(out) = nc + nj
            /\ \A i \in 1 .. nc :
                  /\ out[i].category = "clothing"
                  /\ out[i].label = KeptClothing[i].label
                  /\ out[i].confidence = KeptClothing[i].score
            /\ \A i \in 1 .. nj :
                  /\ out[nc + i].category = "jewelry"
                  /\ out[nc + i].label = KeptJewelry[i].label
                  /\ out[nc + i].confidence = KeptJewelry[i].score

\* C27 witness: the clothing detector gave a detection below its threshold
\* and one at it, the jewelry detector one at its threshold; the two at the
\* thresholds are returned, clothing first.
C27_Witness ==
    /\ ObjectsReturned
    /\ Len(detIn.clothing.dets) = 2
    /\ detIn.clothing.dets[1].score = ClothingThreshold - 1
    /\ detIn.clothing.dets[2].score = ClothingThreshold
    /\ ~detIn.jewelry.raises
    /\ Len(detIn.jewelry.dets) = 1
    /\ detIn.jewelry.dets[1].score = JewelryThreshold
    /\ Len(detOut[1].result.detections) = 2
    /\ detOut[1].result.detections[1].category = "clothing"
    /\ detOut[1].result.detections[2].category = "jewelry"

(***************************************************************************)
(* Claims about the result map of a job (checked under Spec)               *)
(***************************************************************************)
\* C29: every entry of a job's result map, in memory and in the results
\* file, has a non-empty product list; an iteration that processed a frame
\* and resolved no product leaves the map as it was.
C29_NoEmptyEntries ==
    /\ [](\A id \in JobIds :
            /\ \A k \in 1 .. Len(tasks[id].frames_data) :
                  tasks[id].frames_data[k].products # <<>>
            /\ \A k \in 1 .. Len(disk[id].results_file.entries) :
                  disk[id].results_file.entries[k].products # <<>>)
    /\ [][ \A id \in JobIds :
              ( /\ tasks'[id] # tasks[id]
                /\ tasks'[id].last.kind = "processed"
                /\ tasks'[id].processed_count = tasks[id].processed_count ) =>
                    tasks'[id].frames_data = tasks[id].frames_data ]_vars

\* C29 witness: the last iteration found a detection, its crop failed, no
\* product came of it, and the map is still empty.
C29_Witness ==
    \E id \in JobIds :
        /\ tasks[id].pc = "loop"
        /\ tasks[id].last.kind = "processed"
        /\ tasks[id].last.detections # <<>>
        /\ tasks[id].frames_data = <<>>
        /\ tasks[id].processed_count = 0

(***************************************************************************)
(* Claims about the upload endpoint (checked under SpecPair)               *)
(***************************************************************************)
\* C30: an upload whose content type does not start with video/ is rejected
\* with HTTP status 400 ("File must be a video"); no file is saved, no entry
\* is added to the registry and no processing task is scheduled.
C30_NotVideoRejected400 ==
    /\ [](reply.kind = "upload_error" =>
            /\ reply.status_code = 400
            /\ reply.detail = "File must be a video")
    /\ [][ reply'.kind = "upload_error" =>
              /\ videos' = videos
              /\ tasks' = tasks
              /\ disk' = disk ]_vars

====
